---- MODULE Spec2Model ----
(***************************************************************************)
(* Territory conquest: the path effect of SessionProvider (distance,       *)
(* loop detection, capture, ownership arbitration) and the ingestion of    *)
(* location samples, as a state machine.                                   *)
(*                                                                         *)
(* Numbers.  Owner strengths are IEEE-754 doubles and the code compares    *)
(* them exactly, so a strength is kept as the exact double, written as a   *)
(* two-limb integer in units of 2^-55 (see FAdd).  Coordinates are whole   *)
(* metres on a local plane (north = latitude, east = longitude); averages  *)
(* and square roots are rounded to the metre, timestamps are milliseconds. *)
(***************************************************************************)
EXTENDS Integers, Sequences, FiniteSets, TLC

VARIABLES
    state,              \* SessionState: "idle" | "active" | "paused"
    mode,               \* ActivityMode or "null"
    path,               \* the live path, a sequence of LatLng
    pathDirty,          \* the path state was replaced since the path effect last ran
    distance,           \* distance state (metres)
    distanceRef,        \* distanceRef.current
    stepCount,          \* pedometer steps of the session
    territories,        \* the local territory collection
    storedTerritories,  \* the "territories" blob written by saveTerritoriesLocally
    capturedLoopCount,
    lastCaptured,       \* the last captured territory record, or NoTerritory
    ownerId,            \* the claimant of this device
    issued,             \* remote writes requested by the last run of the path effect
    uidSeq,             \* source of fresh territory ids (uid())
    clock,              \* Date.now()
    route,              \* environment: the way the agent walks
    pos,                \* environment: the agent's waypoint on the route
    nSamples,           \* number of inputs delivered so far (bounded)
    nOdd,               \* number of irregular samples delivered so far (bounded)
    bgPoints,           \* the "bg_points" value the background task stores
    nBg,                \* number of background batches delivered so far (bounded)
    watchSub,           \* watchSub.current holds a location subscription
    pedometerSub,       \* pedometerSub.current holds a step subscription
    bgTask,             \* the background location updates are started
    taskRun,            \* the background task between its read and its write of "bg_points"
    drains,             \* per caller, the drainBackgroundPoints call between read and remove
    flushB,             \* a second flushPendingUploads call in progress
    loading,            \* what the initialisation effect read at mount, until it is applied
    isInitialized,
    sessions,           \* sessions state, newest first
    form,               \* per storage key, the form of the stored string
    storedSessions,     \* the array under "sessions" (when its form is "array")
    pendingS,           \* the array under "pending_session_uploads"
    pendingT,           \* the array under "pending_territory_uploads"
    remoteT,            \* the remote "territories" collection, in order of creation
    remoteS,            \* ids of the sessions in the remote "sessions" collection
    creates,            \* trySaveTerritory calls whose addDoc has not settled
    updates,            \* tryUpdateTerritoryOwners calls whose updateDoc has not settled
    saves,              \* trySaveToFirestore calls whose addDoc has not settled
    enqT,               \* enqueuePendingTerritory calls in progress
    enqS,               \* enqueuePendingSession calls in progress
    flush,              \* the flushPendingUploads call in progress
    view                \* decayedTerritories as last computed

vars == << state, mode, path, pathDirty, distance, distanceRef, stepCount,
           territories, storedTerritories, capturedLoopCount, lastCaptured,
           ownerId, issued, uidSeq, clock, route, pos, nSamples, nOdd,
           bgPoints, nBg, watchSub, pedometerSub, bgTask, taskRun, drains, flushB,
           loading, isInitialized,
           sessions,
           form, storedSessions, pendingS, pendingT, remoteT, remoteS, creates, updates, saves, enqT, enqS, flush,
           view >>

\* the subscriptions a session holds
subVars == << watchSub, pedometerSub, bgTask >>

\* the variables of the background task
bgVars == << bgPoints, nBg, subVars, taskRun, drains, flushB, loading >>

\* the asynchronous calls that may be in progress
callVars == << taskRun, drains, flushB, loading >>

\* who calls drain(): the 3 s interval and the app coming to the foreground
Drainers == {"interval", "foreground"}

\* the subscriptions as start() and stop() leave them in the state at hand
SubsInit ==
    /\ watchSub = (state = "active")
    /\ pedometerSub = (state = "active" /\ mode \in {"walk", "run"})
    /\ bgTask = (state = "active")
    /\ taskRun = << >>
    /\ drains = [d \in Drainers |-> << >>]
    /\ flushB = [pc |-> "idle", sQ |-> << >>, tQ |-> << >>, keptS |-> << >>, keptT |-> << >>]

\* the variables of local storage, of the remote store and of the calls
\* that move data between them
storeVars == << isInitialized, sessions, form, storedSessions, pendingS, pendingT,
                remoteT, remoteS, creates, updates, saves, enqT, enqS, flush, view >>

-----------------------------------------------------------------------------
(* Bounds of the model *)

MaxSamples == 12
MaxBatches == 6
MaxOdd == 1
MaxFg == 2
MaxBg == 1
MaxLoops == 1
MaxSessions == 1
MaxVisits == 8
MaxSteps == 2
MaxRuns == 2
MaxDocs == 4
MaxTrack == 4

-----------------------------------------------------------------------------
(* Program constants *)

LOOP_CLOSE_THRESHOLD_M == 50
MIN_LOOP_DISTANCE_M == 20
MIN_TERRITORY_AREA_M2 == 30
ACCURACY_LIMIT_M == 50
JUMP_LIMIT_M == 100
MIN_LOOP_POINTS == 10
SMOOTH_WINDOW == 3
DAILY_DECAY_PCT == 2
DAY_MS == 86400000
MINUTE_MS == 60000
DecayOne == 1024

MaxSpeedMps == [walk |-> 3, run |-> 7, cycle |-> 15]

-----------------------------------------------------------------------------
(* IEEE-754 doubles for owner strengths.                                   *)
(* A double x >= 0 is the record [hi, lo] with x = (hi * 2^30 + lo) * 2^-55 *)
(* and 0 <= lo < 2^30; every double in [2^-3, 64) is such a record.        *)

LoBase == 2^30

F0_0 == [hi |-> 0, lo |-> 0]
F0_2 == [hi |-> 6710886, lo |-> 429496730]     \* 0.2 = 0x3FC999999999999A
F0_5 == [hi |-> 2^24, lo |-> 0]
F1_0 == [hi |-> 2^25, lo |-> 0]
F1_2 == [hi |-> 40265318, lo |-> 429496728]    \* 1.2 = 0x3FF3333333333333
F2_0 == [hi |-> 2^26, lo |-> 0]

\* unit in the last place of the binade of hi, in units of 2^-55
RECURSIVE Ulp(_)
Ulp(hi) == IF hi < 2^23 THEN 1 ELSE 2 * Ulp(hi \div 2)

FLt(a, b) == a.hi < b.hi \/ (a.hi = b.hi /\ a.lo < b.lo)
FGt(a, b) == FLt(b, a)
FGe(a, b) == ~FLt(a, b)
FLe(a, b) == ~FLt(b, a)
FMin(a, b) == IF FLt(b, a) THEN b ELSE a

\* a + b of doubles: the exact sum rounded to 53 bits, ties to even
FAdd(a, b) ==
    LET lo0 == a.lo + b.lo
        hi  == a.hi + b.hi + (lo0 \div LoBase)
        lo  == lo0 % LoBase
        u   == Ulp(hi)
        q   == lo % u
        dn  == lo - q
        r   == IF 2 * q < u THEN dn
               ELSE IF 2 * q > u THEN dn + u
               ELSE IF (dn \div u) % 2 = 0 THEN dn ELSE dn + u
    IN  [hi |-> hi + (r \div LoBase), lo |-> r % LoBase]

-----------------------------------------------------------------------------
(* Geo primitives *)

Abs(x) == IF x < 0 THEN -x ELSE x
Max(a, b) == IF a > b THEN a ELSE b
Min(a, b) == IF a < b THEN a ELSE b

\* x / n rounded as Math.round does (half up), for x >= 0
RoundDiv(x, n) == (2 * x + n) \div (2 * n)

RECURSIVE SqrtStep(_, _, _)
SqrtStep(n, lo, hi) ==
    IF lo >= hi THEN lo
    ELSE LET mid == (lo + hi + 1) \div 2
         IN  IF mid * mid <= n THEN SqrtStep(n, mid, hi) ELSE SqrtStep(n, lo, mid - 1)

\* floor of the square root
ISqrt(n) == SqrtStep(n, 0, Min(n, 46340))

LatLng(lat, lon, ts) == [latitude |-> lat, longitude |-> lon, timestamp |-> ts]

\* great-circle distance of two points, in whole metres
haversine(a, b) ==
    LET dLat == b.latitude - a.latitude
        dLon == b.longitude - a.longitude
    IN  ISqrt(dLat * dLat + dLon * dLon)

\* moving average over a centred window, clamped at the ends
smoothPath(points, windowSize) ==
    IF Len(points) <= 2 THEN points
    ELSE LET w == Max(2, Min(windowSize, 5))
             start(i) == Max(1, i - (w \div 2))
             end(i) == Min(Len(points), i + (w \div 2))
             RECURSIVE Sum(_, _, _)
             Sum(f, j, e) == IF j > e THEN 0 ELSE f[j] + Sum(f, j + 1, e)
             lats == [j \in 1..Len(points) |-> points[j].latitude]
             lons == [j \in 1..Len(points) |-> points[j].longitude]
             tss  == [j \in 1..Len(points) |-> points[j].timestamp]
         IN  [i \in 1..Len(points) |->
                LET n == end(i) - start(i) + 1
                IN  LatLng(RoundDiv(Sum(lats, start(i), end(i)), n),
                           RoundDiv(Sum(lons, start(i), end(i)), n),
                           RoundDiv(Sum(tss, start(i), end(i)), n))]

toMetersXY(originLat, p) == [x |-> p.longitude, y |-> p.latitude - originLat]

\* shoelace area, the last point joined to the first
polygonAreaM2(poly) ==
    IF Len(poly) < 3 THEN 0
    ELSE LET originLat == poly[1].latitude
             pts == [i \in 1..Len(poly) |-> toMetersXY(originLat, poly[i])]
             RECURSIVE Shoe(_)
             Shoe(i) == IF i > Len(pts) THEN 0
                        ELSE LET a == pts[i]
                                 b == pts[(i % Len(pts)) + 1]
                             IN  (a.x * b.y - b.x * a.y) + Shoe(i + 1)
         IN  Abs(Shoe(1)) \div 2

SeqMin(f) == CHOOSE m \in {f[i] : i \in DOMAIN f} : \A i \in DOMAIN f : m <= f[i]
SeqMax(f) == CHOOSE m \in {f[i] : i \in DOMAIN f} : \A i \in DOMAIN f : m >= f[i]

\* bounding box of a non-empty polygon
bbox(poly) ==
    [minLat |-> SeqMin([i \in DOMAIN poly |-> poly[i].latitude]),
     minLon |-> SeqMin([i \in DOMAIN poly |-> poly[i].longitude]),
     maxLat |-> SeqMax([i \in DOMAIN poly |-> poly[i].latitude]),
     maxLon |-> SeqMax([i \in DOMAIN poly |-> poly[i].longitude])]

\* variant of bboxesOverlap: the longitude test is left out
bboxesOverlapLatOnly(a, b) ==
    IF Len(a) = 0 \/ Len(b) = 0 THEN FALSE
    ELSE LET A == bbox(a)
             B == bbox(b)
         IN  ~(A.maxLat < B.minLat \/ A.minLat > B.maxLat)

\* an empty polygon has the box (Infinity, -Infinity), which overlaps nothing
bboxesOverlap(a, b) ==
    IF Len(a) = 0 \/ Len(b) = 0 THEN FALSE
    ELSE LET A == bbox(a)
             B == bbox(b)
         IN  ~(A.maxLat < B.minLat \/ A.minLat > B.maxLat \/
               A.maxLon < B.minLon \/ A.minLon > B.maxLon)

-----------------------------------------------------------------------------
(* Ownership arbitration: the setTerritories updater of the path effect *)

Owner(o, s) == [ownerId |-> o, strength |-> s]

NewTerritory(id, m, poly, now, owner) ==
    [id |-> id, mode |-> m, polygon |-> poly, createdAt |-> now,
     owners |-> << Owner(owner, F1_0) >>]

\* lastCaptured holding null: a record of a territory's fields that is no
\* territory (its id is no uid, it has no polygon and no owner)
NoTerritory ==
    [id |-> 0, mode |-> "null", polygon |-> << >>, createdAt |-> 0, owners |-> << >>]

\* index of the first entry of owner in owners, 0 when there is none (find)
RECURSIVE FindOwner(_, _, _)
FindOwner(owners, owner, i) ==
    IF i > Len(owners) THEN 0
    ELSE IF owners[i].ownerId = owner THEN i
    ELSE FindOwner(owners, owner, i + 1)

OtherOwners(owners, owner) == SelectSeq(owners, LAMBDA o : o.ownerId # owner)

\* otherOwners.reduce((sum, o) => sum + o.strength, 0)
RECURSIVE TotalStrength(_, _)
TotalStrength(owners, n) ==
    IF n = 0 THEN F0_0 ELSE FAdd(TotalStrength(owners, n - 1), owners[n].strength)

\* variant of Strengthen: the clamp is left out
StrengthenNoClamp(owners, mine) ==
    [owners EXCEPT ![mine].strength = FAdd(@, F0_2)]

\* exclusive branch: strengthen, clamped to 2.0
Strengthen(owners, mine) ==
    [owners EXCEPT ![mine].strength = FMin(F2_0, FAdd(@, F0_2))]

\* contested-entry branch: the claimant joins with 0.5
Contest(owners, owner) == Append(owners, Owner(owner, F0_5))

\* variant of Escalate: claim-over already at equal strength
EscalateAtEqual(owners, owner, mine) ==
    LET others == OtherOwners(owners, owner)
        s == FAdd(owners[mine].strength, F0_5)
        totalOthersStrength == TotalStrength(others, Len(others))
    IN  IF FGe(s, F1_0) /\ FGe(s, totalOthersStrength)
        THEN << Owner(owner, F1_0) >>
        ELSE [owners EXCEPT ![mine].strength = s]

\* variant of Escalate: only the first other owner is weighed
EscalateFirstOther(owners, owner, mine) ==
    LET others == OtherOwners(owners, owner)
        s == FAdd(owners[mine].strength, F0_5)
    IN  IF FGe(s, F1_0) /\ FGt(s, others[1].strength)
        THEN << Owner(owner, F1_0) >>
        ELSE [owners EXCEPT ![mine].strength = s]

\* already-contesting branch: +0.5, then claim-over when strong enough
Escalate(owners, owner, mine) ==
    LET others == OtherOwners(owners, owner)
        s == FAdd(owners[mine].strength, F0_5)
        totalOthersStrength == TotalStrength(others, Len(others))
    IN  IF FGe(s, F1_0) /\ FGt(s, totalOthersStrength)
        THEN << Owner(owner, F1_0) >>
        ELSE [owners EXCEPT ![mine].strength = s]

\* variant of ArbitrateOwners: the contested-entry branch does not look
\* for the claimant's own entry
ArbitrateOwnersBlindEntry(owners, owner) ==
    LET mine == FindOwner(owners, owner, 1)
        others == OtherOwners(owners, owner)
    IN  IF mine # 0 /\ Len(others) = 0 THEN Strengthen(owners, mine)
        ELSE IF Len(others) > 0 THEN Contest(owners, owner)
        ELSE owners

\* the owners of an overlapped territory after a capture by owner
ArbitrateOwners(owners, owner) ==
    LET mine == FindOwner(owners, owner, 1)
        others == OtherOwners(owners, owner)
    IN  IF mine # 0 /\ Len(others) = 0 THEN Strengthen(owners, mine)
        ELSE IF Len(others) > 0 /\ mine = 0 THEN Contest(owners, owner)
        ELSE IF mine # 0 /\ Len(others) > 0 THEN Escalate(owners, owner, mine)
        ELSE owners

\* one of the three branches ran and pushed the territory to changed
BranchTaken(owners, owner) ==
    FindOwner(owners, owner, 1) # 0 \/ Len(OtherOwners(owners, owner)) > 0

\* variant of Arbitrate: the overlap flag is that of the last territory only
ArbitrateLastFlag(prev, newTerr, owner) ==
    LET hit(i) == bboxesOverlap(prev[i].polygon, newTerr.polygon)
        updated == [i \in 1..Len(prev) |->
                      IF hit(i)
                      THEN [prev[i] EXCEPT !.owners = ArbitrateOwners(@, owner)]
                      ELSE prev[i]]
        overlapped == Len(prev) > 0 /\ hit(Len(prev))
        changedIdx == {i \in 1..Len(prev) : hit(i) /\ BranchTaken(prev[i].owners, owner)}
    IN  [updated |-> IF overlapped THEN updated ELSE << newTerr >> \o updated,
         overlappedExistingTerritories |-> overlapped,
         changed |-> {[id |-> updated[i].id, owners |-> updated[i].owners] : i \in changedIdx}]

\* the updater: [updated, overlappedExistingTerritories, changed]
Arbitrate(prev, newTerr, owner) ==
    LET hit(i) == bboxesOverlap(prev[i].polygon, newTerr.polygon)
        updated == [i \in 1..Len(prev) |->
                      IF hit(i)
                      THEN [prev[i] EXCEPT !.owners = ArbitrateOwners(@, owner)]
                      ELSE prev[i]]
        overlapped == \E i \in 1..Len(prev) : hit(i)
        changedIdx == {i \in 1..Len(prev) : hit(i) /\ BranchTaken(prev[i].owners, owner)}
    IN  [updated |-> IF overlapped THEN updated ELSE << newTerr >> \o updated,
         overlappedExistingTerritories |-> overlapped,
         changed |-> {[id |-> updated[i].id, owners |-> updated[i].owners] : i \in changedIdx}]

-----------------------------------------------------------------------------
(* Loop detector: the candidate scan of the path effect *)

\* cumulative distance of smoothed from index i to the end
RECURSIVE PathDist(_, _)
PathDist(smoothed, i) ==
    IF i >= Len(smoothed) THEN 0
    ELSE haversine(smoothed[i], smoothed[i + 1]) + PathDist(smoothed, i + 1)

Accepted(smoothed, i) ==
    /\ haversine(smoothed[i], smoothed[Len(smoothed)]) < LOOP_CLOSE_THRESHOLD_M
    /\ PathDist(smoothed, i) > MIN_LOOP_DISTANCE_M

\* the first accepted candidate at or after i, 0 when the scan finds none
\* (indices are 1-based: the code's i runs over 0 .. length-11)
RECURSIVE ScanFrom(_, _)
ScanFrom(smoothed, i) ==
    IF i > Max(0, Len(smoothed) - MIN_LOOP_POINTS) THEN 0
    ELSE IF Accepted(smoothed, i) THEN i
    ELSE ScanFrom(smoothed, i + 1)

\* variant of LoopStartIdx: the scan does not break, the last accepted
\* candidate wins
LoopStartIdxNoBreak(smoothed) ==
    LET accepted == {i \in 1..Max(0, Len(smoothed) - MIN_LOOP_POINTS) : Accepted(smoothed, i)}
    IN  IF Len(smoothed) > MIN_LOOP_POINTS /\ accepted # {}
        THEN CHOOSE i \in accepted : \A j \in accepted : j <= i
        ELSE 0

\* variant of LoopStartIdx: a candidate that fails the area test is passed
\* over and the scan goes on
LoopStartIdxTryNext(smoothed) ==
    LET good == {i \in 1..Max(0, Len(smoothed) - MIN_LOOP_POINTS) :
                    /\ Accepted(smoothed, i)
                    /\ polygonAreaM2(SubSeq(smoothed, i, Len(smoothed))) >= MIN_TERRITORY_AREA_M2}
    IN  IF Len(smoothed) > MIN_LOOP_POINTS /\ good # {}
        THEN CHOOSE i \in good : \A j \in good : i <= j
        ELSE IF Len(smoothed) > MIN_LOOP_POINTS THEN ScanFrom(smoothed, 1) ELSE 0

\* loopStartIdx (1-based), 0 when no loop is detected
LoopStartIdx(smoothed) ==
    IF Len(smoothed) > MIN_LOOP_POINTS THEN ScanFrom(smoothed, 1) ELSE 0

\* smoothed.slice(loopStartIdx)
LoopPolygon(smoothed, idx) == SubSeq(smoothed, idx, Len(smoothed))

\* variant of RemainingPath: the points from the closure index onward
RemainingPathOnward(smoothed, idx) == SubSeq(smoothed, idx, Len(smoothed))

\* variant of RemainingPath: the scanned path is written back whole
RemainingPathWhole(smoothed, idx) == smoothed

\* smoothed.slice(0, loopStartIdx + 1)
RemainingPath(smoothed, idx) == SubSeq(smoothed, 1, idx)

\* variant of Captures: the area is not looked at
CapturesAnyArea(smoothed, idx) == idx # 0

\* the loop at idx is captured
Captures(smoothed, idx) ==
    idx # 0 /\ polygonAreaM2(LoopPolygon(smoothed, idx)) >= MIN_TERRITORY_AREA_M2

-----------------------------------------------------------------------------
(* The path effect: useEffect on [path, mode, ownerId, ...] *)

StrideMm == [walk |-> 762, run |-> 914]

\* speed <= max * 1.5, with speed = d / max(1, (last.timestamp - prev.timestamp) / 1000)
SpeedValid(d, prev, last, m) ==
    LET ms == last.timestamp - prev.timestamp
    IN  IF ms <= 1000 THEN 2 * d <= 3 * MaxSpeedMps[m]
        ELSE 2000 * d <= 3 * MaxSpeedMps[m] * ms

\* [distance, distanceRef] after the distance update of the effect
DistanceUpdate(smoothed, m) ==
    LET last == smoothed[Len(smoothed)]
        prev == smoothed[Len(smoothed) - 1]
        d == haversine(prev, last)
    IN  IF m \in {"walk", "run"}
        THEN LET distanceFromSteps == RoundDiv(stepCount * StrideMm[m], 1000)
             IN  [distance |-> distanceFromSteps, distanceRef |-> distanceFromSteps]
        ELSE IF SpeedValid(d, prev, last, m)
        THEN [distance |-> distanceRef + d, distanceRef |-> distanceRef + d]
        ELSE [distance |-> distance, distanceRef |-> distanceRef]

\* the remote writes the effect requests for a capture: the owners of every
\* changed territory, and the new territory when shouldAddNewTerritory is
\* still true where the effect reads it (updaterRan: the updater has run by then)
Writes(arb, newTerr, updaterRan) ==
    {[op |-> "update", id |-> c.id, owners |-> c.owners] : c \in arb.changed}
    \cup (IF updaterRan /\ arb.overlappedExistingTerritories THEN {}
          ELSE {[op |-> "create", id |-> newTerr.id, owners |-> newTerr.owners]})

Detect ==
    /\ pathDirty
    /\ UNCHANGED << state, mode, stepCount, ownerId, clock, route, pos, nSamples, nOdd,
                    bgVars >>
    /\ IF Len(path) < 2 \/ mode = "null"
       THEN /\ pathDirty' = FALSE
            /\ issued' = {}
            /\ UNCHANGED << path, distance, distanceRef, territories, storedTerritories,
                            capturedLoopCount, lastCaptured, uidSeq >>
       ELSE LET smoothed == smoothPath(path, SMOOTH_WINDOW)
                dist == DistanceUpdate(smoothed, mode)
                loopStartIdx == LoopStartIdx(smoothed)
            IN  /\ distance' = dist.distance
                /\ distanceRef' = dist.distanceRef
                /\ IF Captures(smoothed, loopStartIdx)
                   THEN LET newTerr == NewTerritory(uidSeq, mode,
                                                    LoopPolygon(smoothed, loopStartIdx),
                                                    clock, ownerId)
                            arb == Arbitrate(territories, newTerr, ownerId)
                        IN  /\ territories' = arb.updated
                            /\ storedTerritories' = arb.updated
                            /\ capturedLoopCount' = capturedLoopCount + 1
                            /\ lastCaptured' = newTerr
                            /\ \E updaterRan \in BOOLEAN :
                                   issued' = Writes(arb, newTerr, updaterRan)
                            /\ uidSeq' = uidSeq + 1
                            /\ path' = RemainingPath(smoothed, loopStartIdx)
                            /\ pathDirty' = TRUE
                   ELSE /\ pathDirty' = FALSE
                        /\ issued' = {}
                        /\ UNCHANGED << path, territories, storedTerritories,
                                        capturedLoopCount, lastCaptured, uidSeq >>

\* the path effect where the remote store is left out of the picture: the
\* writes a capture requests are recorded in issued and go no further
PathEffect == Detect /\ UNCHANGED storeVars

-----------------------------------------------------------------------------
(* Session start and the foreground location watch *)

Modes == {"walk", "run", "cycle"}
Owners == {"A", "B", "C"}
Routes == {"square", "line", "outback"}

\* environment: waypoint k of a route, 10 m apart, as [lat, lon]
\*   square : round a 30 m square, again and again
\*   line   : straight east
\*   outback: 60 m east and back on the same line, again and again
Waypoint(r, k) ==
    IF r = "square"
    THEN LET j == k % 12
         IN  IF j <= 3 THEN << 100, 100 + 10 * j >>
             ELSE IF j <= 6 THEN << 100 + 10 * (j - 3), 130 >>
             ELSE IF j <= 9 THEN << 130, 130 - 10 * (j - 6) >>
             ELSE << 130 - 10 * (j - 9), 100 >>
    ELSE IF r = "line" THEN << 100, 100 + 10 * k >>
    ELSE LET j == k % 12
         IN  << 100, 100 + 10 * (IF j <= 6 THEN j ELSE 12 - j) >>

\* start(m), the location permission granted and the watch started
Start(m, r) ==
    /\ state = "idle"
    /\ ~pathDirty
    /\ mode' = m
    /\ path' = << >>
    /\ pathDirty' = TRUE
    /\ distanceRef' = 0
    /\ distance' = 0
    /\ stepCount' = 0
    /\ capturedLoopCount' = 0
    /\ lastCaptured' = NoTerritory
    /\ state' = "active"
    /\ watchSub' = TRUE
    /\ pedometerSub' = (m \in {"walk", "run"})
    /\ bgTask' = TRUE
    /\ route' = r
    /\ pos' = 0
    /\ UNCHANGED << territories, storedTerritories, ownerId, issued, uidSeq, clock,
                    nSamples, nOdd, bgPoints, nBg, callVars, storeVars >>

\* the setPath updater of the watch callback: the jump filter
AppendSample(prev, p) ==
    IF Len(prev) = 0 THEN << p >>
    ELSE IF haversine(prev[Len(prev)], p) > JUMP_LIMIT_M THEN prev
    ELSE Append(prev, p)

\* the watch callback for one location sample: the agent has moved adv
\* waypoints on (glitch: the fix is 500 m off), reported with accuracy acc
Sample(adv, glitch, acc) ==
    /\ state = "active"
    /\ watchSub
    /\ ~pathDirty
    /\ nSamples < MaxSamples
    /\ nSamples' = nSamples + 1
    /\ LET odd == (adv # 1 \/ glitch \/ acc > ACCURACY_LIMIT_M)
       IN  /\ odd => nOdd < MaxOdd
           /\ nOdd' = IF odd THEN nOdd + 1 ELSE nOdd
    /\ clock' = clock + 3000
    /\ pos' = pos + adv
    /\ LET w == Waypoint(route, pos + adv)
           p == LatLng(w[1] + (IF glitch THEN 500 ELSE 0), w[2], clock + 3000)
       IN  IF acc > ACCURACY_LIMIT_M
           THEN UNCHANGED << path, pathDirty >>
           ELSE /\ path' = AppendSample(path, p)
                /\ pathDirty' = (path' # path)
    /\ UNCHANGED << state, mode, distance, distanceRef, stepCount, territories,
                    storedTerritories, capturedLoopCount, lastCaptured, ownerId,
                    issued, uidSeq, route, bgVars, storeVars >>

-----------------------------------------------------------------------------
(* The full pipeline: one session, sample by sample *)

\* a territory as the subscription or the local blob delivers it: a
\* rectangular polygon with corners (lat, lon) and (lat + h, lon + w)
Rect(lat, lon, h, w, ts) ==
    << LatLng(lat, lon, ts), LatLng(lat, lon + w, ts),
       LatLng(lat + h, lon + w, ts), LatLng(lat + h, lon, ts) >>

Territory(id, poly, createdAt, owners) ==
    [id |-> id, mode |-> "walk", polygon |-> poly, createdAt |-> createdAt, owners |-> owners]

\* on the square route / next to it / far from every route; a collection
\* lists its territories by createdAt, newest first
TNear(id, owners) == Territory(id, Rect(110, 110, 30, 30, 1000), 1000, owners)
TSide(id, owners) == Territory(id, Rect(125, 125, 40, 40, 2000), 2000, owners)
TFar(id, owners)  == Territory(id, Rect(900, 900, 30, 30, 500), 500, owners)

\* Math.pow(1 - DAILY_DECAY_RATE, d) for whole days d, in units of 1/DecayOne
RECURSIVE Pow98(_)
Pow98(d) == IF d = 0 THEN DecayOne ELSE (Pow98(d - 1) * (100 - DAILY_DECAY_PCT)) \div 100

\* the decay factor without Math.max(0, days)
DecayFactorNoFloor(ageMs) ==
    IF ageMs < 0 THEN DecayOne + (DecayOne * DAILY_DECAY_PCT) \div 100
    ELSE Pow98(ageMs \div DAY_MS)

\* the decay factor of a territory of age ageMs, in units of 1/DecayOne:
\* 1 for an age of zero or less, else 0.98 to the power of the age in days
\* (between whole days by the minute)
DecayFactor(ageMs) ==
    IF ageMs <= 0 THEN DecayOne
    ELSE LET d == ageMs \div DAY_MS
             m == (ageMs % DAY_MS) \div MINUTE_MS
         IN  Pow98(d) - ((Pow98(d) - Pow98(d + 1)) * m) \div (DAY_MS \div MINUTE_MS)

\* strength * decay: the strength times f / DecayOne, rounded down
Scale(x, f) ==
    LET hq == x.hi \div DecayOne
        hr == x.hi % DecayOne
        lq == x.lo \div DecayOne
        lr == x.lo % DecayOne
        lo0 == ((hr * f) % DecayOne) * (LoBase \div DecayOne) + lq * f + (lr * f) \div DecayOne
    IN  [hi |-> hq * f + (hr * f) \div DecayOne + lo0 \div LoBase, lo |-> lo0 % LoBase]

\* decayedTerritories at time now
decayedTerritories(terrs, now) ==
    [i \in DOMAIN terrs |->
        [terrs[i] EXCEPT !.owners =
            [j \in DOMAIN terrs[i].owners |->
                Owner(terrs[i].owners[j].ownerId,
                      Scale(terrs[i].owners[j].strength,
                            DecayFactor(now - terrs[i].createdAt)))]]]

\* the memo: the collection it was computed from, when, and the result
Memo(terrs, now) == [of |-> terrs, at |-> now, terrs |-> decayedTerritories(terrs, now)]

\* storage keys and the forms a stored string can have: no value, the empty
\* string, a JSON array, text that starts with neither [ nor {, JSON that is
\* not an array, text that starts like JSON and does not parse
Keys == {"sessions", "territories", "pendingS", "pendingT"}
Forms == {"absent", "empty", "array", "garbage", "object", "broken"}

FlushIdle == [pc |-> "idle", sQ |-> << >>, tQ |-> << >>, keptS |-> << >>, keptT |-> << >>]

\* an initialised provider whose storage and remote store agree with its
\* territories and that has nothing queued or under way
StoreInit ==
    /\ isInitialized = TRUE
    /\ sessions = << >>
    /\ form = [k \in Keys |-> IF k \in {"sessions", "territories"} THEN "array" ELSE "absent"]
    /\ storedSessions = << >>
    /\ pendingS = << >>
    /\ pendingT = << >>
    /\ remoteT = territories
    /\ remoteS = {}
    /\ creates = {}
    /\ updates = {}
    /\ saves = {}
    /\ enqT = {}
    /\ enqS = {}
    /\ flush = FlushIdle
    /\ loading = << >>
    /\ view = Memo(territories, clock)

InitCollections ==
    { << >>,
      << TFar(2, << Owner("B", F1_0) >>) >>,
      << TNear(1, << Owner("B", F1_0) >>), TFar(2, << Owner("B", F1_0) >>) >> }

\* a regular sample, one after a missed fix, a GPS glitch, an inaccurate fix
SampleKinds ==
    { [adv |-> 1, glitch |-> FALSE, acc |-> 10],
      [adv |-> 2, glitch |-> FALSE, acc |-> 10],
      [adv |-> 1, glitch |-> TRUE, acc |-> 10],
      [adv |-> 1, glitch |-> FALSE, acc |-> 80] }

Init ==
    /\ state = "idle"
    /\ mode = "null"
    /\ path = << >>
    /\ pathDirty = FALSE
    /\ distance = 0
    /\ distanceRef = 0
    /\ stepCount = 0
    /\ territories \in InitCollections
    /\ storedTerritories = territories
    /\ capturedLoopCount = 0
    /\ lastCaptured = NoTerritory
    /\ ownerId = "A"
    /\ issued = {}
    /\ uidSeq = 100
    /\ clock = 10000
    /\ route = "square"
    /\ pos = 0
    /\ nSamples = 0
    /\ nOdd = 0
    /\ bgPoints = << >>
    /\ nBg = 0
    /\ SubsInit
    /\ StoreInit

Next ==
    \/ \E m \in Modes, r \in Routes : Start(m, r)
    \/ \E k \in SampleKinds : Sample(k.adv, k.glitch, k.acc)
    \/ PathEffect

Spec == Init /\ [][Next]_vars

-----------------------------------------------------------------------------
(* Arbitration among claimants: whole loops arrive as drained background   *)
(* points, and the collection is handed from one claimant's device to the  *)
(* next through the remote store.                                          *)

Sites == {"home", "east"}

SiteOrigin(site) == IF site = "home" THEN << 100, 100 >> ELSE << 100, 400 >>

\* the points the background task recorded while the agent walked once
\* round the 30 m square at site, from time t0 on
LoopAt(site, t0) ==
    [k \in 1..13 |->
        LatLng(SiteOrigin(site)[1] + Waypoint("square", k - 1)[1] - 100,
               SiteOrigin(site)[2] + Waypoint("square", k - 1)[2] - 100,
               t0 + 3000 * k)]

\* drain: the background points are appended to the path, unfiltered
Drained(pts) ==
    /\ state = "active"
    /\ ~pathDirty
    /\ Len(pts) > 0
    /\ path' = path \o pts
    /\ pathDirty' = TRUE
    /\ bgPoints' = << >>
    /\ clock' = Max(clock, pts[Len(pts)].timestamp)
    /\ UNCHANGED << state, mode, distance, distanceRef, stepCount, territories,
                    storedTerritories, capturedLoopCount, lastCaptured, ownerId,
                    issued, uidSeq, route, pos, nBg, subVars, callVars, storeVars >>

\* a drain counted among the inputs of a session (odd: the batch counts as
\* an irregular input)
Drain(pts, odd) ==
    /\ nSamples < MaxBatches
    /\ nSamples' = nSamples + 1
    /\ odd => nOdd < MaxOdd
    /\ nOdd' = IF odd THEN nOdd + 1 ELSE nOdd
    /\ Drained(pts)

\* the collection reaches the device of claimant o by the subscription
\* snapshot; that device runs a session of its own
Arrive(o) ==
    /\ ~pathDirty
    /\ o # ownerId
    /\ ownerId' = o
    /\ path' = << >>
    /\ distance' = 0
    /\ distanceRef' = 0
    /\ capturedLoopCount' = 0
    /\ lastCaptured' = NoTerritory
    /\ issued' = {}
    /\ UNCHANGED << state, mode, pathDirty, stepCount, territories, storedTerritories,
                    uidSeq, clock, route, pos, nOdd, bgVars, storeVars >>

SwitchDevice(o) ==
    /\ nSamples < MaxBatches
    /\ nSamples' = nSamples + 1
    /\ Arrive(o)

\* claimants taking turns on one territory: the next one arrives when the
\* one before has captured
ContestTurn(o) ==
    /\ capturedLoopCount >= 1
    /\ UNCHANGED nSamples
    /\ Arrive(o)

ArbCollections ==
    { << >>,
      << TNear(1, << Owner("A", F1_0) >>) >>,
      << TSide(3, << Owner("B", F1_0) >>), TNear(1, << Owner("A", F1_0) >>),
         TFar(2, << Owner("C", F1_0) >>) >> }

InitArb ==
    /\ state = "active"
    /\ mode = "walk"
    /\ path = << >>
    /\ pathDirty = FALSE
    /\ distance = 0
    /\ distanceRef = 0
    /\ stepCount = 0
    /\ territories \in ArbCollections
    /\ storedTerritories = territories
    /\ capturedLoopCount = 0
    /\ lastCaptured = NoTerritory
    /\ ownerId = "A"
    /\ issued = {}
    /\ uidSeq = 100
    /\ clock = 10000
    /\ route = "square"
    /\ pos = 0
    /\ nSamples = 0
    /\ nOdd = 0
    /\ bgPoints = << >>
    /\ nBg = 0
    /\ SubsInit
    /\ StoreInit

NextArb ==
    \/ \E site \in Sites : Drain(LoopAt(site, clock), site # "home")
    \/ \E o \in Owners : SwitchDevice(o)
    \/ PathEffect

SpecArb == InitArb /\ [][NextArb]_vars

\* a claimant walks once round the home square
Visit ==
    /\ nSamples < MaxVisits
    /\ nSamples' = nSamples + 1
    /\ UNCHANGED nOdd
    /\ Drained(LoopAt("home", clock))

\* one engine-made territory at the home square and its claimants, each
\* walking the square on a device of their own
InitContest ==
    /\ state = "active"
    /\ mode = "walk"
    /\ path = << >>
    /\ pathDirty = FALSE
    /\ distance = 0
    /\ distanceRef = 0
    /\ stepCount = 0
    /\ territories = << TNear(1, << Owner("A", F1_0) >>) >>
    /\ storedTerritories = territories
    /\ capturedLoopCount = 0
    /\ lastCaptured = NoTerritory
    /\ ownerId \in Owners
    /\ issued = {}
    /\ uidSeq = 100
    /\ clock = 10000
    /\ route = "square"
    /\ pos = 0
    /\ nSamples = 0
    /\ nOdd = 0
    /\ bgPoints = << >>
    /\ nBg = 0
    /\ SubsInit
    /\ StoreInit

NextContest ==
    \/ Visit
    \/ \E o \in Owners : ContestTurn(o)
    \/ PathEffect

SpecContest == InitContest /\ [][NextContest]_vars

\* collections delivered by a snapshot in which the home territory's
\* document lists no owner that passes the callback's owners filter
VoidCollections ==
    { << TNear(1, << >>) >>,
      << TSide(3, << Owner("B", F1_0) >>), TNear(1, << >>),
         TFar(2, << Owner("C", F1_0) >>) >> }

InitVoid ==
    /\ state = "active"
    /\ mode = "walk"
    /\ path = << >>
    /\ pathDirty = FALSE
    /\ distance = 0
    /\ distanceRef = 0
    /\ stepCount = 0
    /\ territories \in VoidCollections
    /\ storedTerritories = territories
    /\ capturedLoopCount = 0
    /\ lastCaptured = NoTerritory
    /\ ownerId = "A"
    /\ issued = {}
    /\ uidSeq = 100
    /\ clock = 10000
    /\ route = "square"
    /\ pos = 0
    /\ nSamples = 0
    /\ nOdd = 0
    /\ bgPoints = << >>
    /\ nBg = 0
    /\ SubsInit
    /\ StoreInit

SpecVoid == InitVoid /\ [][NextArb]_vars

-----------------------------------------------------------------------------
(* Local storage, the remote store and the retry queues *)

pathVars == << state, mode, path, pathDirty, distance, distanceRef, stepCount,
               capturedLoopCount, lastCaptured, ownerId, issued, uidSeq, clock,
               route, pos, nSamples, nOdd >>

\* a stored string that is there and is not a JSON array
Malformed(f) == f \in {"garbage", "object", "broken"}

\* the array a reader takes from a key: the parsed array, else the empty one
ReadArray(f, content) == IF f = "array" THEN content ELSE << >>

\* a reader that leaves every stored value where it is
AfterReadKeep(f) == f

\* the form left behind by a reader: removeItem on anything malformed; no
\* value and the empty string are passed over
AfterRead(f) == IF Malformed(f) THEN "absent" ELSE f

\* the initialisation effect: sessions and territories are loaded
Initialise ==
    /\ ~isInitialized
    /\ isInitialized' = TRUE
    /\ loading' = << >>
    /\ sessions' = ReadArray(form["sessions"], storedSessions)
    /\ territories' = ReadArray(form["territories"], storedTerritories)
    /\ storedSessions' = ReadArray(form["sessions"], storedSessions)
    /\ storedTerritories' = ReadArray(form["territories"], storedTerritories)
    /\ form' = [form EXCEPT !["sessions"] = AfterRead(@), !["territories"] = AfterRead(@)]
    /\ UNCHANGED << pathVars, bgPoints, nBg, subVars, taskRun, drains, flushB, pendingS,
                    pendingT, remoteT, remoteS, creates, updates, saves, enqT, enqS,
                    flush, view >>

\* the values of "sessions" and "territories" as Promise.all reads them
Loaded == [fs |-> form["sessions"], s |-> storedSessions,
           ft |-> form["territories"], t |-> storedTerritories]

\* the 3 s timeout of the initialisation effect fires before the load is done
InitTimeout ==
    /\ ~isInitialized
    /\ loading # << >>
    /\ isInitialized' = TRUE
    /\ UNCHANGED << pathVars, territories, storedTerritories, bgVars, sessions, form,
                    storedSessions, pendingS, pendingT, remoteT, remoteS, creates,
                    updates, saves, enqT, enqS, flush, view >>

\* the collection the load sets from a value read in form f with content c:
\* no value and the empty string leave the state as it is
LoadedInto(cur, f, c) == IF f \in {"absent", "empty"} THEN cur ELSE ReadArray(f, c)

\* the load of the initialisation effect is done after the timeout has fired
LateLoad ==
    /\ isInitialized
    /\ loading # << >>
    /\ ~pathDirty
    /\ sessions' = LoadedInto(sessions, loading[1].fs, loading[1].s)
    /\ territories' = LoadedInto(territories, loading[1].ft, loading[1].t)
    /\ form' = [form EXCEPT !["sessions"] = IF Malformed(loading[1].fs) THEN "absent" ELSE @,
                            !["territories"] = IF Malformed(loading[1].ft) THEN "absent" ELSE @]
    /\ loading' = << >>
    /\ UNCHANGED << pathVars, storedTerritories, bgPoints, nBg, subVars, taskRun, drains,
                    flushB, isInitialized, storedSessions, pendingS, pendingT, remoteT,
                    remoteS, creates, updates, saves, enqT, enqS, flush, view >>

\* the path effect with the remote store: the requested writes are under way
PathEffectSend ==
    /\ Detect
    /\ creates' = creates \cup {lastCaptured' : w \in {x \in issued' : x.op = "create"}}
    /\ updates' = updates \cup {[id |-> w.id, owners |-> w.owners] :
                                    w \in {x \in issued' : x.op = "update"}}
    /\ form' = IF capturedLoopCount' # capturedLoopCount
               THEN [form EXCEPT !["territories"] = "array"] ELSE form
    /\ UNCHANGED << isInitialized, sessions, storedSessions, pendingS, pendingT, remoteT,
                    remoteS, saves, enqT, enqS, flush, view >>

\* the session record stop() builds
Session(endedAt, m, pts, dist) ==
    [id |-> endedAt, mode |-> m, path |-> pts, distanceMeters |-> dist, endedAt |-> endedAt]

\* a list with the session twice at its head
WithSessionTwice(session, prev) == << session, session >> \o prev

\* updated = [session, ...sessions]
WithSession(session, prev) == << session >> \o prev

\* stop(): the session is recorded, stored and sent to the remote store
Stop ==
    /\ state # "idle"
    /\ ~pathDirty
    /\ LET session == Session(clock, IF mode = "null" THEN "walk" ELSE mode, path, distance)
       IN  /\ sessions' = WithSession(session, sessions)
           /\ storedSessions' = WithSession(session, sessions)
           /\ saves' = saves \cup {[session |-> session, owner |-> ownerId]}
    /\ form' = [form EXCEPT !["sessions"] = "array"]
    /\ mode' = "null"
    /\ state' = "idle"
    /\ path' = << >>
    /\ pathDirty' = TRUE
    /\ distance' = 0
    /\ stepCount' = 0
    /\ watchSub' = FALSE
    /\ pedometerSub' = FALSE
    /\ bgTask' = FALSE
    /\ UNCHANGED << distanceRef, territories, storedTerritories, capturedLoopCount,
                    lastCaptured, ownerId, issued, uidSeq, clock, route, pos, nSamples,
                    nOdd, bgPoints, nBg, callVars, isInitialized, pendingS, pendingT, remoteT, remoteS,
                    creates, updates, enqT, enqS, flush, view >>

\* the document addDoc creates for a territory: a fresh id, the server's time
Doc(t, now) ==
    [id |-> 200 + Len(remoteT), mode |-> t.mode, polygon |-> t.polygon,
     createdAt |-> now, owners |-> t.owners]

\* trySaveTerritory settles: the document is created, or the territory goes
\* to enqueuePendingTerritory
WriteCreate(t, ok) ==
    /\ t \in creates
    /\ creates' = creates \ {t}
    /\ IF ok
       THEN remoteT' = Append(remoteT, Doc(t, clock)) /\ UNCHANGED enqT
       ELSE enqT' = enqT \cup {[pc |-> "read", arr |-> << >>, item |-> t]}
            /\ UNCHANGED remoteT
    /\ UNCHANGED << pathVars, territories, storedTerritories, bgVars, isInitialized,
                    sessions, form, storedSessions, pendingS, pendingT, remoteS, updates,
                    saves, enqS, flush, view >>

\* tryUpdateTerritoryOwners settles: updateDoc succeeds on an existing
\* document; otherwise the call returns false and nothing else happens
WriteUpdate(u, ok) ==
    /\ u \in updates
    /\ updates' = updates \ {u}
    /\ remoteT' = IF ok
                  THEN [i \in DOMAIN remoteT |->
                          IF remoteT[i].id = u.id
                          THEN [remoteT[i] EXCEPT !.owners = u.owners] ELSE remoteT[i]]
                  ELSE remoteT
    /\ UNCHANGED << pathVars, territories, storedTerritories, bgVars, isInitialized,
                    sessions, form, storedSessions, pendingS, pendingT, remoteS, creates,
                    saves, enqT, enqS, flush, view >>

\* trySaveToFirestore settles
WriteSession(v, ok) ==
    /\ v \in saves
    /\ saves' = saves \ {v}
    /\ IF ok
       THEN remoteS' = remoteS \cup {v.session.id} /\ UNCHANGED enqS
       ELSE enqS' = enqS \cup {[pc |-> "read", arr |-> << >>, item |-> v]}
            /\ UNCHANGED remoteS
    /\ UNCHANGED << pathVars, territories, storedTerritories, bgVars, isInitialized,
                    sessions, form, storedSessions, pendingS, pendingT, remoteT, creates,
                    updates, enqT, flush, view >>

\* enqueuePendingTerritory, up to its setItem: the queue is read
EnqReadT(e) ==
    /\ e \in enqT /\ e.pc = "read"
    /\ enqT' = (enqT \ {e}) \cup
                {[e EXCEPT !.pc = "write", !.arr = ReadArray(form["pendingT"], pendingT)]}
    /\ form' = [form EXCEPT !["pendingT"] = AfterRead(@)]
    /\ pendingT' = ReadArray(form["pendingT"], pendingT)
    /\ UNCHANGED << pathVars, territories, storedTerritories, bgVars, isInitialized,
                    sessions, storedSessions, pendingS, remoteT, remoteS, creates, updates,
                    saves, enqS, flush, view >>

\* enqueuePendingTerritory, its setItem: the array read, with the new entry
EnqWriteT(e) ==
    /\ e \in enqT /\ e.pc = "write"
    /\ enqT' = enqT \ {e}
    /\ pendingT' = Append(e.arr, e.item)
    /\ form' = [form EXCEPT !["pendingT"] = "array"]
    /\ UNCHANGED << pathVars, territories, storedTerritories, bgVars, isInitialized,
                    sessions, storedSessions, pendingS, remoteT, remoteS, creates, updates,
                    saves, enqS, flush, view >>

\* enqueuePendingSession, in the same two steps
EnqReadS(e) ==
    /\ e \in enqS /\ e.pc = "read"
    /\ enqS' = (enqS \ {e}) \cup
                {[e EXCEPT !.pc = "write", !.arr = ReadArray(form["pendingS"], pendingS)]}
    /\ form' = [form EXCEPT !["pendingS"] = AfterRead(@)]
    /\ pendingS' = ReadArray(form["pendingS"], pendingS)
    /\ UNCHANGED << pathVars, territories, storedTerritories, bgVars, isInitialized,
                    sessions, storedSessions, pendingT, remoteT, remoteS, creates, updates,
                    saves, enqT, flush, view >>

EnqWriteS(e) ==
    /\ e \in enqS /\ e.pc = "write"
    /\ enqS' = enqS \ {e}
    /\ pendingS' = Append(e.arr, e.item)
    /\ form' = [form EXCEPT !["pendingS"] = "array"]
    /\ UNCHANGED << pathVars, territories, storedTerritories, bgVars, isInitialized,
                    sessions, storedSessions, pendingT, remoteT, remoteS, creates, updates,
                    saves, enqT, flush, view >>

\* flushPendingUploads, up to the first addDoc: both queues are read; with
\* nothing in them the call returns
FlushRead ==
    /\ flush.pc = "idle"
    /\ LET sQ == ReadArray(form["pendingS"], pendingS)
           tQ == ReadArray(form["pendingT"], pendingT)
       IN  /\ flush' = IF Len(sQ) = 0 /\ Len(tQ) = 0 THEN FlushIdle
                        ELSE [pc |-> "send", sQ |-> sQ, tQ |-> tQ,
                              keptS |-> << >>, keptT |-> << >>]
           /\ pendingS' = sQ
           /\ pendingT' = tQ
    /\ form' = [form EXCEPT !["pendingS"] = AfterRead(@), !["pendingT"] = AfterRead(@)]
    /\ UNCHANGED << pathVars, territories, storedTerritories, bgVars, isInitialized,
                    sessions, storedSessions, remoteT, remoteS, creates, updates, saves,
                    enqT, enqS, view >>

\* a kept list that takes every entry, uploaded or not
KeptAll(kept, item, ok) == Append(kept, item)

\* keptSessions / keptTerrs after one addDoc: the entry is pushed in the catch
Kept(kept, item, ok) == IF ok THEN kept ELSE Append(kept, item)

\* flushPendingUploads, one addDoc: the next entry is written or kept
FlushSend(ok) ==
    /\ flush.pc = "send"
    /\ Len(flush.sQ) + Len(flush.tQ) > 0
    /\ IF Len(flush.sQ) > 0
       THEN /\ flush' = [flush EXCEPT !.sQ = Tail(@),
                                      !.keptS = Kept(@, Head(flush.sQ), ok)]
            /\ remoteS' = IF ok THEN remoteS \cup {Head(flush.sQ).session.id} ELSE remoteS
            /\ UNCHANGED remoteT
       ELSE /\ flush' = [flush EXCEPT !.tQ = Tail(@),
                                      !.keptT = Kept(@, Head(flush.tQ), ok)]
            /\ remoteT' = IF ok THEN Append(remoteT, Doc(Head(flush.tQ), clock)) ELSE remoteT
            /\ UNCHANGED remoteS
    /\ UNCHANGED << pathVars, territories, storedTerritories, bgVars, isInitialized,
                    sessions, form, storedSessions, pendingS, pendingT, creates, updates,
                    saves, enqT, enqS, view >>

\* flushPendingUploads, its two setItem calls: the kept entries are stored
FlushStore ==
    /\ flush.pc = "send"
    /\ Len(flush.sQ) + Len(flush.tQ) = 0
    /\ pendingS' = flush.keptS
    /\ pendingT' = flush.keptT
    /\ form' = [form EXCEPT !["pendingS"] = "array", !["pendingT"] = "array"]
    /\ flush' = FlushIdle
    /\ UNCHANGED << pathVars, territories, storedTerritories, bgVars, isInitialized,
                    sessions, storedSessions, remoteT, remoteS, creates, updates, saves,
                    enqT, enqS, view >>

\* a second call of flushPendingUploads, started by the app coming to the
\* foreground or by mount while a call started by the timer is under way:
\* the same three steps
FlushReadB ==
    /\ flushB.pc = "idle"
    /\ LET sQ == ReadArray(form["pendingS"], pendingS)
           tQ == ReadArray(form["pendingT"], pendingT)
       IN  /\ flushB' = IF Len(sQ) = 0 /\ Len(tQ) = 0 THEN FlushIdle
                         ELSE [pc |-> "send", sQ |-> sQ, tQ |-> tQ,
                               keptS |-> << >>, keptT |-> << >>]
           /\ pendingS' = sQ
           /\ pendingT' = tQ
    /\ form' = [form EXCEPT !["pendingS"] = AfterRead(@), !["pendingT"] = AfterRead(@)]
    /\ UNCHANGED << pathVars, territories, storedTerritories, bgPoints, nBg, subVars,
                    taskRun, drains, loading, isInitialized, sessions, storedSessions, remoteT,
                    remoteS, creates, updates, saves, enqT, enqS, flush, view >>

FlushSendB(ok) ==
    /\ flushB.pc = "send"
    /\ Len(flushB.sQ) + Len(flushB.tQ) > 0
    /\ IF Len(flushB.sQ) > 0
       THEN /\ flushB' = [flushB EXCEPT !.sQ = Tail(@),
                                        !.keptS = Kept(@, Head(flushB.sQ), ok)]
            /\ remoteS' = IF ok THEN remoteS \cup {Head(flushB.sQ).session.id} ELSE remoteS
            /\ UNCHANGED remoteT
       ELSE /\ flushB' = [flushB EXCEPT !.tQ = Tail(@),
                                        !.keptT = Kept(@, Head(flushB.tQ), ok)]
            /\ remoteT' = IF ok THEN Append(remoteT, Doc(Head(flushB.tQ), clock)) ELSE remoteT
            /\ UNCHANGED remoteS
    /\ UNCHANGED << pathVars, territories, storedTerritories, bgPoints, nBg, subVars,
                    taskRun, drains, loading, isInitialized, sessions, form, storedSessions,
                    pendingS, pendingT, creates, updates, saves, enqT, enqS, flush, view >>

FlushStoreB ==
    /\ flushB.pc = "send"
    /\ Len(flushB.sQ) + Len(flushB.tQ) = 0
    /\ pendingS' = flushB.keptS
    /\ pendingT' = flushB.keptT
    /\ form' = [form EXCEPT !["pendingS"] = "array", !["pendingT"] = "array"]
    /\ flushB' = FlushIdle
    /\ UNCHANGED << pathVars, territories, storedTerritories, bgPoints, nBg, subVars,
                    taskRun, drains, loading, isInitialized, sessions, storedSessions, remoteT,
                    remoteS, creates, updates, saves, enqT, enqS, flush, view >>

\* the documents the subscription query delivers: orderBy createdAt desc,
\* documents of one createdAt by name, in the same direction
RECURSIVE InsertDoc(_, _, _)
InsertDoc(sorted, t, byName) ==
    IF Len(sorted) = 0 THEN << t >>
    ELSE IF \/ Head(sorted).createdAt > t.createdAt
            \/ Head(sorted).createdAt = t.createdAt /\ (~byName \/ Head(sorted).id > t.id)
         THEN << Head(sorted) >> \o InsertDoc(Tail(sorted), t, byName)
         ELSE << t >> \o sorted

RECURSIVE SortDocs(_, _)
SortDocs(docs, byName) ==
    IF Len(docs) = 0 THEN << >>
    ELSE InsertDoc(SortDocs(SubSeq(docs, 1, Len(docs) - 1), byName), docs[Len(docs)], byName)

QueryDocs(r) == SortDocs(r, TRUE)

\* polygon parsing that stamps every point with the document's createdAt
ParsePolygonRestamp(poly, createdAt) ==
    [i \in DOMAIN poly |-> LatLng(poly[i].latitude, poly[i].longitude, createdAt)]

\* a document's polygon as the callback parses it: the points with numeric
\* coordinates, each with its own timestamp
ParsePolygon(poly, createdAt) ==
    [i \in DOMAIN poly |-> LatLng(poly[i].latitude, poly[i].longitude, poly[i].timestamp)]

ParseDoc(d) ==
    [id |-> d.id, mode |-> d.mode, polygon |-> ParsePolygon(d.polygon, d.createdAt),
     createdAt |-> d.createdAt,
     owners |-> [j \in DOMAIN d.owners |-> Owner(d.owners[j].ownerId, d.owners[j].strength)]]

\* a snapshot that keeps the territories the device alone knows
SnapshotTerritoriesMerge(local, docs) ==
    LET remote == [i \in DOMAIN docs |-> ParseDoc(docs[i])]
        mine == SelectSeq(local, LAMBDA t : \A i \in DOMAIN docs : docs[i].id # t.id)
    IN  SortDocs(mine \o remote, FALSE)

\* the collection the snapshot callback sets: the parsed documents, sorted by
\* createdAt, newest first (a stable sort)
SnapshotTerritories(local, docs) ==
    LET remote == [i \in DOMAIN docs |-> ParseDoc(docs[i])]
    IN  SortDocs(remote, FALSE)

\* the subscription delivers a snapshot of the remote collection
Snapshot ==
    /\ isInitialized
    /\ ~pathDirty
    /\ territories' = SnapshotTerritories(territories, QueryDocs(remoteT))
    /\ storedTerritories' = territories'
    /\ form' = [form EXCEPT !["territories"] = "array"]
    /\ UNCHANGED << pathVars, bgVars, isInitialized, sessions, storedSessions, pendingS,
                    pendingT, remoteT, remoteS, creates, updates, saves, enqT, enqS, flush,
                    view >>

\* a render after the territories changed: the memo is computed anew
Render ==
    /\ view.of # territories
    /\ view' = Memo(territories, clock)
    /\ UNCHANGED << pathVars, territories, storedTerritories, bgVars, isInitialized,
                    sessions, form, storedSessions, pendingS, pendingT, remoteT, remoteS,
                    creates, updates, saves, enqT, enqS, flush >>

\* a session of drained loops whose writes reach the remote store or fail,
\* with the retry queue and its flush timer running beside it
QueueCollections == { << >>, << TNear(1, << Owner("A", F1_0) >>) >> }

InitQueue == InitArb /\ territories \in QueueCollections

NextQueue ==
    \/ \E site \in Sites : nSamples < MaxLoops /\ Drain(LoopAt(site, clock), FALSE)
    \/ PathEffectSend
    \/ Stop
    \/ \E t \in creates, ok \in BOOLEAN : WriteCreate(t, ok)
    \/ \E u \in updates, ok \in BOOLEAN : WriteUpdate(u, ok)
    \/ \E v \in saves, ok \in BOOLEAN : WriteSession(v, ok)
    \/ \E e \in enqT : EnqReadT(e) \/ EnqWriteT(e)
    \/ \E e \in enqS : EnqReadS(e) \/ EnqWriteS(e)
    \/ FlushRead
    \/ \E ok \in BOOLEAN : FlushSend(ok)
    \/ FlushStore

SpecQueue == InitQueue /\ [][NextQueue]_vars

\* the retry queue with two flushPendingUploads calls that may overlap
NextOverlap ==
    \/ nSamples < MaxLoops /\ Drain(LoopAt("home", clock), FALSE)
    \/ PathEffectSend
    \/ \E t \in creates, ok \in BOOLEAN : WriteCreate(t, ok)
    \/ \E u \in updates, ok \in BOOLEAN : WriteUpdate(u, ok)
    \/ \E e \in enqT : EnqReadT(e) \/ EnqWriteT(e)
    \/ FlushRead
    \/ \E ok \in BOOLEAN : Len(remoteT) < MaxDocs /\ FlushSend(ok)
    \/ FlushStore
    \/ FlushReadB
    \/ \E ok \in BOOLEAN : Len(remoteT) < MaxDocs /\ FlushSendB(ok)
    \/ FlushStoreB

SpecOverlap == InitQueue /\ [][NextOverlap]_vars

\* a session three days after the home territory was made; the far territory
\* was stamped by a server whose clock is ahead; a write may fail, and the
\* flush runs when the store can be reached again
SyncStart == 3 * DAY_MS + 10000

TAhead(id, owners) ==
    Territory(id, Rect(900, 900, 30, 30, SyncStart + 60 * MINUTE_MS),
              SyncStart + 60 * MINUTE_MS, owners)

SyncCollections ==
    { << >>,
      << TAhead(3, << Owner("C", F1_0) >>), TNear(1, << Owner("A", F1_0) >>) >> }

InitSync ==
    /\ state = "active"
    /\ mode = "walk"
    /\ path = << >>
    /\ pathDirty = FALSE
    /\ distance = 0
    /\ distanceRef = 0
    /\ stepCount = 0
    /\ territories \in SyncCollections
    /\ storedTerritories = territories
    /\ capturedLoopCount = 0
    /\ lastCaptured = NoTerritory
    /\ ownerId = "A"
    /\ issued = {}
    /\ uidSeq = 100
    /\ clock = SyncStart
    /\ route = "square"
    /\ pos = 0
    /\ nSamples = 0
    /\ nOdd = 0
    /\ bgPoints = << >>
    /\ nBg = 0
    /\ SubsInit
    /\ StoreInit

NextSync ==
    \/ \E site \in Sites : nSamples < MaxLoops /\ Drain(LoopAt(site, clock), FALSE)
    \/ PathEffectSend
    \/ \E t \in creates, ok \in BOOLEAN : WriteCreate(t, ok)
    \/ \E u \in updates, ok \in BOOLEAN : WriteUpdate(u, ok)
    \/ \E e \in enqT : EnqReadT(e) \/ EnqWriteT(e)
    \/ FlushRead
    \/ FlushSend(TRUE)
    \/ FlushStore
    \/ Snapshot
    \/ Render

SpecSync == InitSync /\ [][NextSync]_vars

\* the provider as it mounts: nothing loaded yet, one storage key holding
\* any form of value; a stored array is one the program wrote earlier
StoredArray(k) ==
    IF k = "territories" THEN << TNear(1, << Owner("A", F1_0) >>) >>
    ELSE IF k = "pendingT" THEN << TFar(2, << Owner("B", F1_0) >>) >>
    ELSE << >>

InitRestore ==
    /\ state = "idle"
    /\ mode = "null"
    /\ path = << >>
    /\ pathDirty = FALSE
    /\ distance = 0
    /\ distanceRef = 0
    /\ stepCount = 0
    /\ territories = << >>
    /\ capturedLoopCount = 0
    /\ lastCaptured = NoTerritory
    /\ ownerId = "A"
    /\ issued = {}
    /\ uidSeq = 100
    /\ clock = 10000
    /\ route = "square"
    /\ pos = 0
    /\ nSamples = 0
    /\ nOdd = 0
    /\ bgPoints = << >>
    /\ nBg = 0
    /\ SubsInit
    /\ isInitialized = FALSE
    /\ sessions = << >>
    /\ \E k \in Keys, f \in Forms :
          /\ form = [j \in Keys |-> IF j = k THEN f ELSE "absent"]
          /\ storedSessions = << >>
          /\ storedTerritories = IF form["territories"] = "array"
                                 THEN StoredArray("territories") ELSE << >>
          /\ pendingS = << >>
          /\ pendingT = IF form["pendingT"] = "array" THEN StoredArray("pendingT") ELSE << >>
    /\ remoteT = << >>
    /\ remoteS = {}
    /\ creates = {}
    /\ updates = {}
    /\ saves = {}
    /\ enqT = {}
    /\ enqS = {}
    /\ flush = FlushIdle
    /\ loading = << Loaded >>
    /\ view = Memo(territories, clock)

\* the initialisation effect and the flush timer start at mount; the screens
\* open once the provider is initialised, and a session starts from there;
\* the device is offline, so every remote write fails
NextRestore ==
    \/ Initialise
    \/ FlushRead
    \/ FlushSend(FALSE)
    \/ FlushStore
    \/ isInitialized /\ Len(sessions) < MaxSessions /\ Start("walk", "square")
    \/ nSamples < MaxLoops /\ Drain(LoopAt("home", clock), FALSE)
    \/ PathEffectSend
    \/ Stop
    \/ \E t \in creates : WriteCreate(t, FALSE)
    \/ \E u \in updates : WriteUpdate(u, FALSE)
    \/ \E v \in saves : WriteSession(v, FALSE)
    \/ \E e \in enqT : EnqReadT(e) \/ EnqWriteT(e)
    \/ \E e \in enqS : EnqReadS(e) \/ EnqWriteS(e)

SpecRestore == InitRestore /\ [][NextRestore]_vars

\* a mount with a stored collection and a remote one that differ; the load
\* may be done before or after the 3 s timeout; the device is online
InitLate ==
    /\ state = "idle"
    /\ mode = "null"
    /\ path = << >>
    /\ pathDirty = FALSE
    /\ distance = 0
    /\ distanceRef = 0
    /\ stepCount = 0
    /\ territories = << >>
    /\ capturedLoopCount = 0
    /\ lastCaptured = NoTerritory
    /\ ownerId = "A"
    /\ issued = {}
    /\ uidSeq = 100
    /\ clock = 10000
    /\ route = "square"
    /\ pos = 0
    /\ nSamples = 0
    /\ nOdd = 0
    /\ bgPoints = << >>
    /\ nBg = 0
    /\ SubsInit
    /\ isInitialized = FALSE
    /\ sessions = << >>
    /\ form \in {[j \in Keys |-> IF j = "territories" THEN f ELSE "absent"] :
                    f \in {"absent", "array", "garbage"}}
    /\ storedSessions = << >>
    /\ storedTerritories = IF form["territories"] = "array"
                           THEN StoredArray("territories") ELSE << >>
    /\ pendingS = << >>
    /\ pendingT = << >>
    /\ remoteT \in {<< TFar(2, << Owner("B", F1_0) >>) >>,
                    << TNear(1, << Owner("B", F1_0) >>), TFar(2, << Owner("B", F1_0) >>) >>}
    /\ remoteS = {}
    /\ creates = {}
    /\ updates = {}
    /\ saves = {}
    /\ enqT = {}
    /\ enqS = {}
    /\ flush = FlushIdle
    /\ loading = << Loaded >>
    /\ view = Memo(territories, clock)

NextLate ==
    \/ Initialise
    \/ InitTimeout
    \/ LateLoad
    \/ Snapshot
    \/ isInitialized /\ Len(sessions) < MaxSessions /\ Start("walk", "square")
    \/ nSamples < MaxLoops /\ Drain(LoopAt("home", clock), FALSE)
    \/ PathEffectSend
    \/ \E t \in creates : WriteCreate(t, TRUE)
    \/ \E u \in updates : WriteUpdate(u, TRUE)

SpecLate == InitLate /\ [][NextLate]_vars

-----------------------------------------------------------------------------
(* Ingestion: the foreground watch and the background task feed one path *)

\* a LocationObject as the OS hands it to the background task
Loc(p, acc) ==
    [latitude |-> p.latitude, longitude |-> p.longitude, timestamp |-> p.timestamp,
     accuracy |-> acc]

\* the background task: accuracy filter, then the jump filter against the
\* last point stored before this batch, then the merge into "bg_points"
BgFiltered(prev, locs) ==
    LET mapped == [k \in DOMAIN SelectSeq(locs, LAMBDA l : ~(l.accuracy > ACCURACY_LIMIT_M)) |->
                     LET l == SelectSeq(locs, LAMBDA x : ~(x.accuracy > ACCURACY_LIMIT_M))[k]
                     IN  LatLng(l.latitude, l.longitude, l.timestamp)]
    IN  IF Len(prev) = 0 THEN mapped
        ELSE SelectSeq(mapped, LAMBDA pt : ~(haversine(prev[Len(prev)], pt) > JUMP_LIMIT_M))

BgTask(locs) ==
    /\ bgTask
    /\ ~pathDirty
    /\ nBg < MaxBg
    /\ Len(locs) > 0
    /\ nBg' = nBg + 1
    /\ bgPoints' = bgPoints \o BgFiltered(bgPoints, locs)
    /\ clock' = Max(clock, locs[Len(locs)].timestamp)
    /\ UNCHANGED << state, mode, path, pathDirty, distance, distanceRef, stepCount,
                    territories, storedTerritories, capturedLoopCount, lastCaptured,
                    ownerId, issued, uidSeq, route, pos, nSamples, nOdd, subVars,
                    callVars, storeVars >>

\* environment: what the OS delivers to the background task at time t0
\*   far    : one location 500 m north of it
\*   poor   : one location reported with accuracy 80 m
\*   loop   : the agent walked once round the home square
\*   retrace: the agent walked round the home square and the same way back
BgKinds == {"far", "poor", "loop", "retrace"}

Retrace(t0) ==
    LET loop == LoopAt("home", t0)
    IN  loop \o [k \in 1..12 |->
                   LatLng(loop[13 - k].latitude, loop[13 - k].longitude,
                          t0 + 3000 * (13 + k))]

BgBatch(kind, t0) ==
    IF kind = "far" THEN << Loc(LatLng(600, 100, t0 + 3000), 10) >>
    ELSE IF kind = "poor" THEN << Loc(LatLng(100, 100, t0 + 3000), 80) >>
    ELSE IF kind = "loop" THEN [k \in 1..13 |-> Loc(LoopAt("home", t0)[k], 10)]
    ELSE [k \in 1..25 |-> Loc(Retrace(t0)[k], 10)]

InitIngest ==
    /\ InitArb
    /\ territories = << >>

NextIngest ==
    \/ \E glitch \in BOOLEAN : nSamples < MaxFg /\ Sample(1, glitch, 10)
    \/ \E kind \in BgKinds : BgTask(BgBatch(kind, clock))
    \/ Drain(bgPoints, FALSE)
    \/ PathEffect

SpecIngest == InitIngest /\ [][NextIngest]_vars

\* the points the background task recorded on a walk of two circuits: from
\* the home corner round the south block to a corner 45 m east of home, then
\* round the north block to a corner 45 m further east
TwoLoopsWay ==
    << << 100, 100 >>, << 80, 100 >>, << 60, 100 >>, << 40, 100 >>, << 20, 100 >>,
       << 20, 122 >>, << 20, 145 >>, << 40, 145 >>, << 55, 145 >>, << 70, 145 >>,
       << 100, 145 >>,
       << 125, 145 >>, << 150, 145 >>, << 175, 145 >>, << 175, 160 >>, << 175, 175 >>,
       << 175, 190 >>, << 160, 190 >>, << 145, 190 >>, << 130, 190 >>, << 115, 190 >>,
       << 100, 190 >> >>

TwoLoops(t0) ==
    [k \in DOMAIN TwoLoopsWay |->
        LatLng(TwoLoopsWay[k][1], TwoLoopsWay[k][2], t0 + 3000 * k)]

\* a session fed by drains alone, among them the walk of two circuits; an
\* effect that has a path to look at runs: when the path keeps needing a
\* look, the effect keeps running
NextCascade ==
    \/ Drain(LoopAt("home", clock), FALSE)
    \/ Drain(LoopAt("east", clock), TRUE)
    \/ Drain(TwoLoops(clock), TRUE)
    \/ PathEffect

SpecCascade ==
    /\ InitIngest
    /\ [][NextCascade]_vars
    /\ ([]<>(~pathDirty) \/ []<><<PathEffect>>_vars)

\* the entries left in the retry queues by writes that failed earlier
QueuedT == << TFar(2, << Owner("B", F1_0) >>) >>
QueuedS == << [session |-> Session(9000, "walk", << >>, 0), owner |-> "A"] >>

\* the remote store accepts every write from here on: the queues hold one
\* entry each, and a flush call may be at its setItem with a kept entry
InitAccept ==
    /\ state = "active"
    /\ mode = "walk"
    /\ path = << >>
    /\ pathDirty = FALSE
    /\ distance = 0
    /\ distanceRef = 0
    /\ stepCount = 0
    /\ territories = << >>
    /\ storedTerritories = territories
    /\ capturedLoopCount = 0
    /\ lastCaptured = NoTerritory
    /\ ownerId = "A"
    /\ issued = {}
    /\ uidSeq = 100
    /\ clock = 10000
    /\ route = "square"
    /\ pos = 0
    /\ nSamples = 0
    /\ nOdd = 0
    /\ bgPoints = << >>
    /\ nBg = 0
    /\ SubsInit
    /\ isInitialized = TRUE
    /\ sessions = << >>
    /\ form = [k \in Keys |-> "array"]
    /\ storedSessions = << >>
    /\ pendingS = QueuedS
    /\ pendingT = QueuedT
    /\ remoteT = << >>
    /\ remoteS = {}
    /\ creates = {}
    /\ updates = {}
    /\ saves = {}
    /\ enqT = {}
    /\ enqS = {}
    /\ flush \in {FlushIdle,
                  [pc |-> "send", sQ |-> << >>, tQ |-> << >>,
                   keptS |-> QueuedS, keptT |-> QueuedT]}
    /\ loading = << >>
    /\ view = Memo(territories, clock)

NextAccept ==
    \/ Stop
    \/ \E v \in saves : WriteSession(v, TRUE)
    \/ Snapshot
    \/ Render
    \/ FlushRead
    \/ Len(remoteT) < MaxDocs /\ FlushSend(TRUE)
    \/ FlushStore
    \/ FlushReadB
    \/ Len(remoteT) < MaxDocs /\ FlushSendB(TRUE)
    \/ FlushStoreB

\* the flush timer keeps firing, and every addDoc and setItem of a call it
\* started comes to an end
SpecAccept ==
    /\ InitAccept
    /\ [][NextAccept]_vars
    /\ WF_vars(FlushRead)
    /\ WF_vars(Len(remoteT) < MaxDocs /\ FlushSend(TRUE))
    /\ WF_vars(FlushStore)

-----------------------------------------------------------------------------
(* The background task and drain(), step by step: each awaits storage
   between its read of "bg_points" and its write or removal *)

\* environment: the k-th location the OS hands to the background task
BgPointAt(k) == LatLng(100, 100 + 5 * k, 10000 + 3000 * k)

\* the task up to the end of getItem: the batch, and the stored points as read
TaskRead(locs) ==
    /\ bgTask
    /\ taskRun = << >>
    /\ nBg < MaxRuns
    /\ Len(locs) > 0
    /\ nBg' = nBg + 1
    /\ taskRun' = << [locs |-> locs, prev |-> bgPoints] >>
    /\ clock' = Max(clock, locs[Len(locs)].timestamp)
    /\ UNCHANGED << state, mode, path, pathDirty, distance, distanceRef, stepCount,
                    territories, storedTerritories, capturedLoopCount, lastCaptured,
                    ownerId, issued, uidSeq, route, pos, nSamples, nOdd, bgPoints,
                    subVars, drains, flushB, loading,
                    storeVars >>

\* the task's setItem: what it read, merged with the filtered batch
TaskWrite ==
    /\ taskRun # << >>
    /\ bgPoints' = taskRun[1].prev \o BgFiltered(taskRun[1].prev, taskRun[1].locs)
    /\ taskRun' = << >>
    /\ UNCHANGED << state, mode, path, pathDirty, distance, distanceRef, stepCount,
                    territories, storedTerritories, capturedLoopCount, lastCaptured,
                    ownerId, issued, uidSeq, clock, route, pos, nSamples, nOdd, nBg,
                    subVars, drains, flushB, loading,
                    storeVars >>

\* drain() of caller d up to the end of getItem; with nothing stored it
\* returns at once
DrainRead(d) ==
    /\ state = "active"
    /\ drains[d] = << >>
    /\ Len(bgPoints) > 0
    /\ drains' = [drains EXCEPT ![d] = << bgPoints >>]
    /\ UNCHANGED << state, mode, path, pathDirty, distance, distanceRef, stepCount,
                    territories, storedTerritories, capturedLoopCount, lastCaptured,
                    ownerId, issued, uidSeq, clock, route, pos, nSamples, nOdd,
                    bgPoints, nBg, subVars, taskRun, flushB, loading, storeVars >>

\* drain() of caller d from removeItem on: the points it read join the path
DrainRemove(d) ==
    /\ drains[d] # << >>
    /\ ~pathDirty
    /\ bgPoints' = << >>
    /\ path' = path \o drains[d][1]
    /\ pathDirty' = TRUE
    /\ drains' = [drains EXCEPT ![d] = << >>]
    /\ UNCHANGED << state, mode, distance, distanceRef, stepCount, territories,
                    storedTerritories, capturedLoopCount, lastCaptured, ownerId,
                    issued, uidSeq, clock, route, pos, nSamples, nOdd, nBg, subVars,
                    taskRun, flushB, loading, storeVars >>

NextDrain ==
    \/ TaskRead(<< Loc(BgPointAt(nBg + 1), 10) >>)
    \/ TaskWrite
    \/ \E d \in Drainers : DrainRead(d)
    \/ \E d \in Drainers : DrainRemove(d)
    \/ PathEffect

SpecDrain == InitIngest /\ [][NextDrain]_vars

-----------------------------------------------------------------------------
(* The session lifecycle: start, pause, resume, stop and the pedometer *)

\* start(m) where startWatching gives up and start() goes on after it: the
\* permission is refused (granted = FALSE), or it is granted and no watch
\* is obtained
StartAborted(m, granted) ==
    /\ state = "idle"
    /\ ~pathDirty
    /\ mode' = "null"
    /\ state' = "idle"
    /\ path' = << >>
    /\ pathDirty' = TRUE
    /\ distanceRef' = 0
    /\ distance' = 0
    /\ stepCount' = 0
    /\ capturedLoopCount' = 0
    /\ lastCaptured' = NoTerritory
    /\ watchSub' = FALSE
    /\ pedometerSub' = (m \in {"walk", "run"})
    /\ bgTask' = granted
    /\ UNCHANGED << territories, storedTerritories, ownerId, issued, uidSeq, clock,
                    route, pos, nSamples, nOdd, bgPoints, nBg, callVars, storeVars >>

\* the callback of Pedometer.watchStepCount: one more step
Step ==
    /\ pedometerSub
    /\ stepCount < MaxSteps
    /\ stepCount' = stepCount + 1
    /\ UNCHANGED << state, mode, path, pathDirty, distance, distanceRef, territories,
                    storedTerritories, capturedLoopCount, lastCaptured, ownerId,
                    issued, uidSeq, clock, route, pos, nSamples, nOdd, bgVars,
                    storeVars >>

\* pause(): the watch, the pedometer and the background task are stopped
Pause ==
    /\ state = "active"
    /\ ~pathDirty
    /\ state' = "paused"
    /\ watchSub' = FALSE
    /\ pedometerSub' = FALSE
    /\ bgTask' = FALSE
    /\ UNCHANGED << mode, path, pathDirty, distance, distanceRef, stepCount,
                    territories, storedTerritories, capturedLoopCount, lastCaptured,
                    ownerId, issued, uidSeq, clock, route, pos, nSamples, nOdd,
                    bgPoints, nBg, callVars, storeVars >>

\* resume(), the watch started again: startPedometer sets the step count to 0
Resume ==
    /\ state = "paused"
    /\ mode # "null"
    /\ ~pathDirty
    /\ state' = "active"
    /\ watchSub' = TRUE
    /\ pedometerSub' = (mode \in {"walk", "run"})
    /\ stepCount' = IF mode \in {"walk", "run"} THEN 0 ELSE stepCount
    /\ bgTask' = TRUE
    /\ UNCHANGED << mode, path, pathDirty, distance, distanceRef, territories,
                    storedTerritories, capturedLoopCount, lastCaptured, ownerId,
                    issued, uidSeq, clock, route, pos, nSamples, nOdd, bgPoints, nBg,
                    callVars, storeVars >>

\* resume() where startWatching gives up, as in StartAborted
ResumeAborted(granted) ==
    /\ state = "paused"
    /\ mode # "null"
    /\ ~pathDirty
    /\ state' = "idle"
    /\ mode' = "null"
    /\ watchSub' = FALSE
    /\ pedometerSub' = (mode \in {"walk", "run"})
    /\ stepCount' = IF mode \in {"walk", "run"} THEN 0 ELSE stepCount
    /\ bgTask' = granted
    /\ UNCHANGED << path, pathDirty, distance, distanceRef, territories,
                    storedTerritories, capturedLoopCount, lastCaptured, ownerId,
                    issued, uidSeq, clock, route, pos, nSamples, nOdd, bgPoints, nBg,
                    callVars, storeVars >>

InitSession ==
    /\ Init
    /\ territories = << >>

NextSession ==
    \/ \E m \in Modes : Len(sessions) < MaxSessions /\ Start(m, "square")
    \/ \E m \in Modes, granted \in BOOLEAN : StartAborted(m, granted)
    \/ nSamples < MaxTrack /\ Sample(1, FALSE, 10)
    \/ Step
    \/ Pause
    \/ Resume
    \/ \E granted \in BOOLEAN : ResumeAborted(granted)
    \/ Stop
    \/ PathEffect

SpecSession == InitSession /\ [][NextSession]_vars

-----------------------------------------------------------------------------
(* Vocabulary of the properties *)

\* this step is a run of the path effect that captured a loop
Captured == capturedLoopCount' = capturedLoopCount + 1

\* the bounding boxes of two non-empty polygons share a point: no
\* parallel or meridian separates the points of p from the points of q
BoxesMeet(p, q) ==
    /\ Len(p) > 0 /\ Len(q) > 0
    /\ ~ \/ \A i \in DOMAIN p, j \in DOMAIN q : p[i].latitude < q[j].latitude
         \/ \A i \in DOMAIN p, j \in DOMAIN q : p[i].latitude > q[j].latitude
         \/ \A i \in DOMAIN p, j \in DOMAIN q : p[i].longitude < q[j].longitude
         \/ \A i \in DOMAIN p, j \in DOMAIN q : p[i].longitude > q[j].longitude

\* territory i of the collection is overlapped by the polygon captured in this step
Hit(i) == BoxesMeet(territories[i].polygon, lastCaptured'.polygon)

OwnerSet(owners) == {owners[k] : k \in DOMAIN owners}
OwnerIds(owners) == {owners[k].ownerId : k \in DOMAIN owners}
Ids(terrs) == [i \in DOMAIN terrs |-> terrs[i].id]

\* the sequence s without its k-th element
Without(s, k) == SubSeq(s, 1, k - 1) \o SubSeq(s, k + 1, Len(s))

-----------------------------------------------------------------------------
(* Arbitration properties, under SpecArb *)

\* C1: contest, then claim-over.  When claimant b captures a loop over a
\* territory, owners [a:1.0] become [a:1.0, b:0.5]; owners [a:1.0, b:0.5]
\* become [a:1.0, b:1.0] (no claim-over: 1.0 is not greater than 1.0); and
\* owners [a:1.0, b:1.0] become exactly [b:1.0].
C1_ContestThenClaimOver ==
    [][Captured =>
        \A i \in DOMAIN territories : Hit(i) =>
            \A a \in Owners \ {ownerId} :
                LET b == ownerId
                    o == territories[i].owners
                    o2 == territories'[i].owners
                IN  /\ o = << Owner(a, F1_0) >>
                        => o2 = << Owner(a, F1_0), Owner(b, F0_5) >>
                    /\ o = << Owner(a, F1_0), Owner(b, F0_5) >>
                        => o2 = << Owner(a, F1_0), Owner(b, F1_0) >>
                    /\ o = << Owner(a, F1_0), Owner(b, F1_0) >>
                        => o2 = << Owner(b, F1_0) >>]_vars

\* B has taken over territory 1 (A's, at 1.0, from the start) by three
\* captures, the only inputs after the hand-over to B's device
C1_Witness ==
    /\ ownerId = "B" /\ capturedLoopCount = 3 /\ nSamples = 4 /\ nOdd = 0
    /\ \E i \in DOMAIN territories :
          territories[i].id = 1 /\ territories[i].owners = << Owner("B", F1_0) >>

\* C2: exclusive strengthening.  A capture over a territory whose only
\* owner is the claimant sets the strength to min(2.0, strength + 0.2): 1.0
\* becomes 1.2, 2.0 stays 2.0, and a sole owner's strength never exceeds
\* 2.0; six captures, and any more, from 1.0 give exactly 2.0.
C2_ExclusiveStrengthening ==
    /\ [][Captured =>
            \A i \in DOMAIN territories :
                (Hit(i) /\ Len(territories[i].owners) = 1
                        /\ territories[i].owners[1].ownerId = ownerId) =>
                    LET s == territories[i].owners[1].strength
                        o2 == territories'[i].owners
                    IN  /\ o2 = << Owner(ownerId, FMin(F2_0, FAdd(s, F0_2))) >>
                        /\ s = F1_0 => o2[1].strength = F1_2
                        /\ s = F2_0 => o2[1].strength = F2_0]_vars
    /\ [](\A i \in DOMAIN territories :
            /\ Len(territories[i].owners) = 1
                    => FLe(territories[i].owners[1].strength, F2_0)
            /\ ( /\ territories[i].id = 1 /\ ownerId = "A" /\ nOdd = 0
                 /\ capturedLoopCount = nSamples /\ nSamples >= 6 )
                    => territories[i].owners = << Owner("A", F2_0) >>)

\* six captures by A, and nothing else, over territory 1: strength 2.0
C2_Witness ==
    /\ ownerId = "A" /\ capturedLoopCount = 6 /\ nSamples = 6 /\ nOdd = 0
    /\ \E i \in DOMAIN territories :
          territories[i].id = 1 /\ territories[i].owners = << Owner("A", F2_0) >>

\* C3: claim-over condition.  When the claimant is an owner next to others,
\* a capture adds 0.5 to the claimant's strength; the owners become exactly
\* [claimant:1.0] if and only if that strength is >= 1.0 and greater than
\* the sum of the others' strengths, and otherwise every other owner is
\* left as it was.
C3_ClaimOverCondition ==
    [][Captured =>
        \A i \in DOMAIN territories :
            (Hit(i) /\ ownerId \in OwnerIds(territories[i].owners)
                    /\ OwnerIds(territories[i].owners) # {ownerId}) =>
                LET o == territories[i].owners
                    o2 == territories'[i].owners
                    mine == CHOOSE k \in DOMAIN o : o[k].ownerId = ownerId
                    s == FAdd(o[mine].strength, F0_5)
                    others == SelectSeq(o, LAMBDA x : x.ownerId # ownerId)
                    total == TotalStrength(others, Len(others))
                    claimOver == FGe(s, F1_0) /\ FGt(s, total)
                IN  /\ claimOver <=> o2 = << Owner(ownerId, F1_0) >>
                    /\ ~claimOver =>
                          /\ Len(o2) = Len(o)
                          /\ o2[mine] = Owner(ownerId, s)
                          /\ \A k \in DOMAIN o : k # mine => o2[k] = o[k]]_vars

\* C has escalated to 1.5 against two others whose strengths sum to 1.5:
\* no claim-over
C3_Witness ==
    /\ ownerId = "C" /\ capturedLoopCount = 3
    /\ \E i \in DOMAIN territories :
          /\ Len(territories[i].owners) = 3
          /\ [hi |-> 3 * 2^24, lo |-> 0] \in
                {x.strength : x \in {y \in OwnerSet(territories[i].owners) : y.ownerId = "C"}}

\* C4: no-overlap creation.  A captured polygon whose bounding box meets
\* no existing territory's adds exactly one territory, owned by the
\* claimant alone at 1.0, and leaves every existing territory as it was.
C4_NoOverlapCreation ==
    [][(Captured /\ \A i \in DOMAIN territories : ~Hit(i)) =>
        /\ Len(territories') = Len(territories) + 1
        /\ \E k \in DOMAIN territories' :
              /\ territories'[k].owners = << Owner(ownerId, F1_0) >>
              /\ territories'[k].polygon = lastCaptured'.polygon
              /\ territories'[k].id \notin {territories[i].id : i \in DOMAIN territories}
              /\ Without(territories', k) = territories]_vars

\* a territory created beside three untouched ones
C4_Witness ==
    /\ Len(territories) = 4 /\ capturedLoopCount = 1 /\ nSamples = 1
    /\ territories[1] = lastCaptured
    /\ Without(territories, 1) \in ArbCollections

\* C5: overlap never inserts.  When the captured polygon's bounding box
\* meets that of at least one existing territory, the collection holds the
\* same territory ids after the capture as before.
C5_OverlapNeverInserts ==
    [][(Captured /\ \E i \in DOMAIN territories : Hit(i)) =>
        Ids(territories') = Ids(territories)]_vars

\* one capture by A over two territories at once: both changed, none added
C5_Witness ==
    /\ Len(territories) = 3 /\ capturedLoopCount = 1 /\ nSamples = 1
    /\ territories[1].owners = << Owner("B", F1_0), Owner("A", F0_5) >>
    /\ territories[2].owners = << Owner("A", F1_2) >>

\* C6: owner uniqueness.  No territory lists an owner twice.
C6_OwnerUniqueness ==
    \A i \in DOMAIN territories :
        Cardinality(OwnerIds(territories[i].owners)) = Len(territories[i].owners)

\* a territory contested by three owners after captures and hand-overs
C6_Witness ==
    /\ capturedLoopCount >= 1
    /\ \E i \in DOMAIN territories :
          OwnerIds(territories[i].owners) = {"A", "B", "C"}

-----------------------------------------------------------------------------
(* Loop detection properties *)

\* the candidates one scan of the smoothed path accepts, and the first
Candidates(sm) ==
    {i \in 1..(Len(sm) - MIN_LOOP_POINTS) :
        /\ haversine(sm[i], sm[Len(sm)]) < LOOP_CLOSE_THRESHOLD_M
        /\ PathDist(sm, i) > MIN_LOOP_DISTANCE_M}
FirstCandidate(sm) ==
    LET c == Candidates(sm)
    IN  IF c = {} THEN 0 ELSE CHOOSE i \in c : \A j \in c : i <= j

\* C7, as stated: a capture yields the polygon that is the sub-path from
\* the closure index to the end, and afterwards the live path is its own
\* prefix 0..closure index, made of the same recorded points as before.
C7_PathKeepsRecordedPrefix ==
    [][Captured =>
        LET sm == smoothPath(path, SMOOTH_WINDOW)
            idx == FirstCandidate(sm)
        IN  /\ lastCaptured'.polygon = SubSeq(sm, idx, Len(sm))
            /\ path' = SubSeq(path, 1, idx)]_vars

\* C8, as stated: after a capture the live path holds only the points from
\* the loop's closure index onward.
C8_RetainsFromClosureOnward ==
    [][Captured =>
        LET sm == smoothPath(path, SMOOTH_WINDOW)
            idx == FirstCandidate(sm)
        IN  path' \in {SubSeq(path, idx, Len(path)), SubSeq(sm, idx, Len(sm))}]_vars

\* C8, amended: after a capture the live path is truncated, not cleared:
\* it holds the points at indices 0..closure index of the smoothed path the
\* detector scanned, at least one point, and none of the ten or more
\* points after the closure index.
C8_RetainsUpToClosure ==
    [][Captured =>
        LET sm == smoothPath(path, SMOOTH_WINDOW)
            idx == FirstCandidate(sm)
        IN  /\ path' = SubSeq(sm, 1, idx)
            /\ Len(path') >= 1
            /\ Len(path') <= Len(path) - MIN_LOOP_POINTS]_vars

\* a second capture, closed beyond the first point of the path, has just
\* left more than one point
C8_Witness ==
    capturedLoopCount >= 2 /\ pathDirty /\ Len(path) >= 2

\* C9: rejected loop.  A run of the detector over a smoothed path of 10 or
\* fewer points, or with no accepted candidate, or whose accepted candidate
\* encloses less than 30 m2, leaves the live path, the territories, the
\* captured-loop count and the last-captured record as they were.
C9_RejectedLoopNoChange ==
    [][(pathDirty /\
        LET sm == smoothPath(path, SMOOTH_WINDOW)
            idx == FirstCandidate(sm)
        IN  \/ Len(sm) <= MIN_LOOP_POINTS
            \/ idx = 0
            \/ polygonAreaM2(SubSeq(sm, idx, Len(sm))) < MIN_TERRITORY_AREA_M2)
       => UNCHANGED << path, territories, capturedLoopCount, lastCaptured >>]_vars

\* the detector has run over an out-and-back path that closes on itself and
\* encloses nothing: nothing captured
C9_Witness ==
    /\ ~pathDirty /\ state = "active" /\ capturedLoopCount = 0
    /\ Len(path) > MIN_LOOP_POINTS
    /\ LET sm == smoothPath(path, SMOOTH_WINDOW)
       IN  /\ FirstCandidate(sm) # 0
           /\ polygonAreaM2(SubSeq(sm, FirstCandidate(sm), Len(sm))) < MIN_TERRITORY_AREA_M2

\* C10: at most one capture per run of the detector.  One run raises the
\* captured-loop count by at most one; when it captures, the polygon starts
\* at the first accepted candidate and the territories are the result of one
\* arbitration; when it does not, the territories are as they were.
C10_AtMostOneCapture ==
    [][pathDirty =>
        /\ capturedLoopCount' \in {capturedLoopCount, capturedLoopCount + 1}
        /\ Captured =>
              LET sm == smoothPath(path, SMOOTH_WINDOW)
              IN  /\ lastCaptured'.polygon = SubSeq(sm, FirstCandidate(sm), Len(sm))
                  /\ territories' = Arbitrate(territories, lastCaptured', ownerId).updated
        /\ ~Captured => territories' = territories]_vars

\* a capture whose scan had a later candidate it would also have accepted
C10_Witness ==
    /\ capturedLoopCount >= 1 /\ pathDirty
    /\ LET poly == lastCaptured.polygon
       IN  \E k \in 2..(Len(poly) - MIN_LOOP_POINTS) :
               /\ haversine(poly[k], poly[Len(poly)]) < LOOP_CLOSE_THRESHOLD_M
               /\ PathDist(poly, k) > MIN_LOOP_DISTANCE_M

-----------------------------------------------------------------------------
(* Ingestion properties, under SpecIngest *)

\* C11: oldest-first tie-break.  The closure index of a run of the detector
\* is the smallest index, among 0 .. length-11, whose point is less than
\* 50 m from the last point and from which the path to the end is longer
\* than 20 m: a capture takes the polygon and the retained prefix at that
\* index, never at a later one, and when the polygon at that index fails
\* the area test the run captures nothing, whatever later indices qualify.
C11_OldestFirst ==
    [][pathDirty =>
        LET sm == smoothPath(path, SMOOTH_WINDOW)
            c == Candidates(sm)
            first == IF c = {} THEN 0 ELSE CHOOSE i \in c : \A j \in c : i <= j
        IN  /\ Captured =>
                  /\ first # 0
                  /\ \A j \in c : first <= j
                  /\ lastCaptured'.polygon[1] = sm[first]
                  /\ Len(lastCaptured'.polygon) = Len(sm) - first + 1
                  /\ Len(path') = first
            /\ (first # 0 /\ polygonAreaM2(SubSeq(sm, first, Len(sm))) < MIN_TERRITORY_AREA_M2)
                  => (~Captured /\ path' = path)]_vars

\* the detector has run over a path whose first candidate encloses nothing
\* while a later candidate encloses enough: nothing was captured
C11_Witness ==
    /\ ~pathDirty /\ capturedLoopCount = 0 /\ Len(path) > MIN_LOOP_POINTS
    /\ LET sm == smoothPath(path, SMOOTH_WINDOW)
           first == FirstCandidate(sm)
       IN  /\ first # 0
           /\ polygonAreaM2(SubSeq(sm, first, Len(sm))) < MIN_TERRITORY_AREA_M2
           /\ \E j \in Candidates(sm) :
                 j > first /\ polygonAreaM2(SubSeq(sm, j, Len(sm))) >= MIN_TERRITORY_AREA_M2

\* C12, as stated: a point is never appended to the live path more than
\* 100 m from the path's last point at that moment, whether the watch
\* callback or a drain of background points delivers it; the path is
\* otherwise left as it was.
C12_JumpFilterEveryRoute ==
    [][~pathDirty =>
        /\ Len(path') >= Len(path)
        /\ SubSeq(path', 1, Len(path)) = path
        /\ \A k \in (Len(path) + 1)..Len(path') :
              k > 1 => haversine(path'[k - 1], path'[k]) <= JUMP_LIMIT_M]_vars

\* C13, as stated: the timestamps of the live path never decrease along
\* the path.
C13_ChronologicalPath ==
    \A i, j \in DOMAIN path : i < j => path[i].timestamp <= path[j].timestamp

-----------------------------------------------------------------------------
(* The retry queues *)

\* the entries of a stored queue
Elems(q) == {q[i] : i \in DOMAIN q}

\* the remote store r holds a document written from territory t
WrittenT(t, r) ==
    \E i \in DOMAIN r : r[i].polygon = t.polygon /\ r[i].owners = t.owners /\ r[i].mode = t.mode

\* C14: an entry leaves the pending-territory or the pending-session queue
\* only after its remote write has succeeded: whenever an entry of a stored
\* queue is no longer in it after a step, the remote store holds its document
C14_RemovalOnlyAfterSuccess ==
    [][ /\ \A t \in Elems(pendingT) :
              t \notin Elems(pendingT') => WrittenT(t, remoteT')
        /\ \A v \in Elems(pendingS) :
              v \notin Elems(pendingS') => v.session.id \in remoteS' ]_vars

\* C15: every remote write issued after a capture that fails, the creation of
\* the new territory or the update of a changed territory's owners, has its
\* payload on the way into the retry queue: when a write settles and the
\* remote store is as it was, an enqueue of that payload has begun
C15_FailedWritesQueued ==
    [][ /\ \A t \in creates \ creates' :
              remoteT' = remoteT => \E e \in enqT' : e.item = t
        /\ \A u \in updates \ updates' :
              remoteT' = remoteT => \E e \in enqT' : e.item.id = u.id /\ e.item.owners = u.owners ]_vars

\* a stored value that is not a JSON array
NotArray(f) == f \notin {"absent", "array"}

\* C18: when the stored value of sessions, territories or a pending queue is
\* not a JSON array, the reader removes the key and takes the collection as
\* empty: so it is for the initialisation effect, for an enqueue and for a
\* flush, each of which completes its read
C18_MalformedDiscarded ==
    [][ /\ (~isInitialized /\ isInitialized') =>
              /\ NotArray(form["sessions"]) =>
                    form'["sessions"] = "absent" /\ sessions' = << >>
              /\ NotArray(form["territories"]) =>
                    form'["territories"] = "absent" /\ territories' = << >>
        /\ ((\E e \in enqT \ enqT' : e.pc = "read") /\ NotArray(form["pendingT"])) =>
                  /\ form'["pendingT"] = "absent"
                  /\ \A e \in enqT' \ enqT : e.arr = << >>
        /\ ((\E e \in enqS \ enqS' : e.pc = "read") /\ NotArray(form["pendingS"])) =>
                  /\ form'["pendingS"] = "absent"
                  /\ \A e \in enqS' \ enqS : e.arr = << >>
        /\ (flush.pc = "idle" /\ flush'.pc = "send") =>
              /\ NotArray(form["pendingS"]) =>
                    form'["pendingS"] = "absent" /\ flush'.sQ = << >>
              /\ NotArray(form["pendingT"]) =>
                    form'["pendingT"] = "absent" /\ flush'.tQ = << >> ]_vars

\* C18, as the readers do it: a stored value that is not empty and is not a
\* JSON array has its key removed and the collection is taken as empty, by
\* the initialisation effect, by an enqueue and by a flush; a stored empty
\* string is left under its key and the collection is taken as empty
C18_NonEmptyMalformedDiscarded ==
    [][ /\ (~isInitialized /\ isInitialized') =>
              /\ Malformed(form["sessions"]) =>
                    form'["sessions"] = "absent" /\ sessions' = << >>
              /\ Malformed(form["territories"]) =>
                    form'["territories"] = "absent" /\ territories' = << >>
        /\ ((\E e \in enqT \ enqT' : e.pc = "read") /\ Malformed(form["pendingT"])) =>
                  /\ form'["pendingT"] = "absent"
                  /\ \A e \in enqT' \ enqT : e.arr = << >>
        /\ ((\E e \in enqS \ enqS' : e.pc = "read") /\ Malformed(form["pendingS"])) =>
                  /\ form'["pendingS"] = "absent"
                  /\ \A e \in enqS' \ enqS : e.arr = << >>
        /\ (flush.pc = "idle" /\ flush'.pc = "send") =>
              /\ Malformed(form["pendingS"]) =>
                    form'["pendingS"] = "absent" /\ flush'.sQ = << >>
              /\ Malformed(form["pendingT"]) =>
                    form'["pendingT"] = "absent" /\ flush'.tQ = << >>
        /\ (~isInitialized /\ isInitialized') =>
              /\ form["sessions"] = "empty" =>
                    form'["sessions"] = "empty" /\ sessions' = << >>
              /\ form["territories"] = "empty" =>
                    form'["territories"] = "empty" /\ territories' = << >> ]_vars

C18_Witness == \E e \in enqT : e.pc = "read" /\ Malformed(form["pendingT"])

-----------------------------------------------------------------------------
(* The subscription snapshot and the decayed view *)

\* a step in which the collection changes and no loop is captured: the
\* snapshot callback has set it
SnapshotStep == territories' # territories /\ capturedLoopCount' = capturedLoopCount

\* C16: a snapshot replaces the local collection: afterwards the collection
\* holds the snapshot's documents and nothing else, newest createdAt first;
\* an empty snapshot leaves it empty; a territory the remote store does not
\* hold is gone; the same collection is what is stored on the device
C16_SnapshotReplaces ==
    [][ SnapshotStep =>
          /\ Len(territories') = Len(remoteT)
          /\ \A i \in DOMAIN remoteT : \E j \in DOMAIN territories' : territories'[j] = remoteT[i]
          /\ \A j, k \in DOMAIN territories' :
                j < k => territories'[j].createdAt >= territories'[k].createdAt
          /\ \A i \in DOMAIN territories :
                (\A d \in DOMAIN remoteT : remoteT[d].id # territories[i].id)
                    => \A j \in DOMAIN territories' : territories'[j].id # territories[i].id
          /\ storedTerritories' = territories' ]_vars

C16_Witness ==
    /\ capturedLoopCount >= 1
    /\ Len(territories) >= 2
    /\ \E i \in DOMAIN territories : territories[i].id >= 200
    /\ \A i \in DOMAIN territories : territories[i].id # lastCaptured.id

\* a step in which the memo is computed anew
RenderStep == view' # view

\* C17: computing the decayed territories changes nothing that is stored, on
\* the device or in the remote store, and removes no territory; the view
\* lists the territories of the collection, each with its owners; a displayed
\* strength equals the stored one when now <= createdAt and is no greater
\* otherwise
C17_DecayReadOnly ==
    [][ RenderStep =>
          /\ territories' = territories
          /\ storedTerritories' = storedTerritories
          /\ remoteT' = remoteT
          /\ Len(view'.terrs) = Len(territories)
          /\ \A i \in DOMAIN territories :
                LET t == territories[i]
                    v == view'.terrs[i]
                IN  /\ v.id = t.id /\ v.polygon = t.polygon /\ v.createdAt = t.createdAt
                    /\ Len(v.owners) = Len(t.owners)
                    /\ \A j \in DOMAIN t.owners :
                          /\ v.owners[j].ownerId = t.owners[j].ownerId
                          /\ FLe(v.owners[j].strength, t.owners[j].strength)
                          /\ view'.at <= t.createdAt =>
                                v.owners[j].strength = t.owners[j].strength ]_vars

\* a view of a collection holding a territory stamped later than now and one
\* that has decayed
C17_Witness ==
    /\ view.of = territories
    /\ view.at > SyncStart
    /\ \E i \in DOMAIN territories : view.at < territories[i].createdAt
    /\ \E i \in DOMAIN territories :
          FLt(view.terrs[i].owners[1].strength, territories[i].owners[1].strength)

-----------------------------------------------------------------------------
(* Strengths *)

\* C20: every stored owner strength is greater than 0 and at most 2.0
C20_StrengthBound ==
    \A i \in DOMAIN territories : \A j \in DOMAIN territories[i].owners :
        /\ FGt(territories[i].owners[j].strength, F0_0)
        /\ FLe(territories[i].owners[j].strength, F2_0)

-----------------------------------------------------------------------------
(* Remote writes of a capture *)

\* C21: a create-territory write is issued for a captured polygon if and
\* only if no existing territory overlapped it
C21_CreateIffNoOverlap ==
    [][Captured =>
        ((\E w \in issued' : w.op = "create")
            <=> (\A i \in DOMAIN territories : ~Hit(i)))]_vars

\* C22: no capture is swallowed: a captured polygon inserts a new territory
\* or changes the owners of at least one territory it overlaps
C22_NoCaptureSwallowed ==
    [][Captured =>
        \/ Len(territories') = Len(territories) + 1
        \/ \E i \in DOMAIN territories :
              Hit(i) /\ territories'[i].owners # territories[i].owners]_vars

-----------------------------------------------------------------------------
(* The capture cascade, under SpecCascade *)

\* C23: each capture writes back a path at least 10 points shorter than the
\* path it scanned, and a path the effect has to look at is always looked at
\* to the end: the effect stops re-triggering itself
C23_CascadeTerminates ==
    /\ [][(pathDirty /\ Captured) => Len(path') + MIN_LOOP_POINTS <= Len(path)]_vars
    /\ (pathDirty ~> ~pathDirty)

\* two captures out of one drained batch
C23_Witness == nSamples = 1 /\ capturedLoopCount = 2 /\ ~pathDirty

\* how often point p occurs in seq
Occurrences(seq, p) == Cardinality({i \in DOMAIN seq : seq[i] = p})

\* C25: whenever no background task run and no drain is under way, every
\* location handed to the task so far is exactly once in the path or in
\* the stored points: none is lost, none is delivered twice
C25_DeliveredExactlyOnce ==
    (taskRun = << >> /\ \A d \in Drainers : drains[d] = << >>)
        => \A k \in 1..nBg : Occurrences(path \o bgPoints, BgPointAt(k)) = 1

\* C26: no two documents of the remote territories collection come from
\* the same queued entry, also where two flushPendingUploads calls overlap
C26_NoDuplicateUpload ==
    \A i, j \in DOMAIN remoteT : remoteT[i].polygon = remoteT[j].polygon => i = j

\* C27: in state idle no location watch, no pedometer subscription and no
\* background task is active, also after a start() that was aborted
C27_IdleQuiescent ==
    state = "idle" => (~watchSub /\ ~pedometerSub /\ ~bgTask)

\* C28: where the local collection is what the subscription delivered, a
\* step changes it only as a snapshot or a capture does; the load of the
\* stored blob, done after the 3 s timeout, leaves it as it is
C28_SnapshotStateKept ==
    [][(isInitialized /\ Len(remoteT) > 0
            /\ territories = SnapshotTerritories(territories, QueryDocs(remoteT)))
        => \/ territories' = territories
           \/ Captured
           \/ territories' = SnapshotTerritories(territories, QueryDocs(remoteT))]_vars

\* C29: with the remote store accepting writes, the flush timer firing and
\* nothing new enqueued, both retry queues end up empty for good and every
\* entry they held is in the remote store
C29_QueueDrains ==
    <>[](/\ Len(pendingT) = 0
         /\ Len(pendingS) = 0
         /\ \E i \in DOMAIN remoteT : remoteT[i].polygon = QueuedT[1].polygon
         /\ QueuedS[1].session.id \in remoteS)

C29_Witness ==
    /\ Len(pendingT) = 0
    /\ Len(pendingS) = 0
    /\ flush = FlushIdle
    /\ QueuedS[1].session.id \in remoteS
    /\ \E i \in DOMAIN remoteT : remoteT[i].polygon = QueuedT[1].polygon

\* the changes of state the lifecycle allows
Transitions ==
    { << "idle", "active" >>, << "active", "paused" >>, << "paused", "active" >>,
      << "active", "idle" >>, << "paused", "idle" >> }

C24_DistanceMonotone ==
    [][(state # "idle" /\ state' # "idle") => distance' >= distance]_vars

====
